---- MODULE Spec2Model ----
(***************************************************************************)
(* Model of the admin backend under src/ug-admin/backend/app:              *)
(*   - the authorization gate and role resolver (core/auth.py),            *)
(*   - the audit sink (core/audit.py) and the services that call it,       *)
(*   - the in-memory search engine (services/search.py) over the student   *)
(*     repository (repositories/students.py).                              *)
(*                                                                         *)
(* Enum-typed fields of pydantic models declared with                      *)
(*   class Config: use_enum_values = True                                  *)
(* hold the enum member's plain value (a str) once the model has validated *)
(* the field; a field left at its default is not validated and keeps the   *)
(* enum member.  A value is therefore modelled as a record                 *)
(*   [value |-> <string>, isEnum |-> <BOOLEAN>]                            *)
(* and the attribute access `.value` is DotValue, which fails with         *)
(* AttributeError on a plain str.                                          *)
(***************************************************************************)
EXTENDS Integers, Sequences, FiniteSets, TLC

VARIABLES
    users,        \* Firestore collection "users": uid -> role document
    setWrites,    \* per uid, the number of document.set() writes that reached the store
    pc,           \* per worker, the position of its authorization request
    req,          \* per worker, the request being authorized
    role,         \* per worker, the local variable `role` of authenticate_user
    seen,         \* per worker, the role document get_user_role read
    fault,        \* per worker, the store call of get_user_role that failed
    out,          \* per worker, how the authorization ended
    started,      \* number of authorization requests begun so far
    students,     \* Firestore collection "students": the set of stored documents
    files,        \* Firestore collection "files": file id -> status of its metadata
    email_logs,   \* Firestore collection "email_logs": the logs stored so far
    audit_logs,   \* Firestore collection "audit_logs": the events appended so far
    op,           \* the service call that completed last and how it ended
    ops,          \* number of service calls made so far
    result,       \* what the last search_students call returned or raised
    unit,         \* the last direct application of one stage of the search engine
    bulk,         \* what the last bulk operation or facet request returned
    firestore_client,  \* the module global _firestore_client of core/db.py
    client_calls,      \* the number of firestore.Client objects constructed so far
    db,           \* the last call of core/db.py and how it ended
    file_student, \* collection "student_files": file id -> student_id of its metadata
    repo          \* per worker, the StudentRepository call it is in and where

authVars == <<users, setWrites, pc, req, role, seen, fault, out, started>>

serviceVars == <<students, files, email_logs, audit_logs, op, ops>>

searchVars == <<result, unit>>

bulkVars == <<bulk>>

dbVars == <<firestore_client, client_calls, db>>

procVars == <<dbVars, file_student, repo>>

vars == <<authVars, serviceVars, searchVars, bulkVars, procVars>>

----------------------------------------------------------------------------
(* Bounds *)

MaxRequests == 2

----------------------------------------------------------------------------
(* Values of enum-typed fields *)

EnumMember(v) == [value |-> v, isEnum |-> TRUE]

\* pydantic validation of an enum field under use_enum_values = True
UseEnumValues(x) == [value |-> x.value, isEnum |-> FALSE]

\* x.value in Python: defined on an Enum member, AttributeError on a str
HasValueAttr(x) == x.isEnum

\* str-mixin enums compare equal to their value, so `in` compares values
EnumIn(x, members) == x.value \in members

----------------------------------------------------------------------------
(* The services at rest: empty collections, no call made *)

\* how a service call ends: it returns (with the counts or the flag it returns)
\* or it raises an error carrying a code
NoOpOutcome ==
    [kind |-> "none", code |-> "", successful |-> 0, failed |-> 0, flag |-> FALSE]

NoOp ==
    [name |-> "none", uid |-> "", sinkUp |-> TRUE, business |-> NoOpOutcome,
     outcome |-> NoOpOutcome, audit_ids |-> <<>>, log_raised |-> FALSE,
     appended |-> 0]

FileIds == {"f1", "f2"}

ServicesIdle ==
    /\ students = {}
    /\ files = [f \in FileIds |-> "absent"]
    /\ email_logs = <<>>
    /\ audit_logs = <<>>
    /\ op = NoOp
    /\ ops = 0

NoResult == [kind |-> "none"]
NoUnit == [stage |-> "none"]
NoBulk == [kind |-> "none"]

SearchIdle ==
    /\ result = NoResult
    /\ unit = NoUnit

BulkIdle == bulk = NoBulk

----------------------------------------------------------------------------
(* The requests in progress and the state of the process *)

Workers == {"w1", "w2"}
Uids == {"u1", "u2"}

\* _firestore_client: Optional[Client] = None
NoClient == 0

NoDbCall ==
    [seq |-> 0, name |-> "none", caller |-> "none", kind |-> "none", client |-> NoClient,
     reused |-> FALSE, since_reset |-> 0]

NoRepoCall == [pc |-> "idle", name |-> "none", id |-> 0, update |-> "none", out |-> "none"]

\* the process after import: no connection handle, nothing in progress
ProcessIdle ==
    /\ firestore_client = NoClient
    /\ client_calls = 0
    /\ db = NoDbCall
    /\ file_student = [f \in FileIds |-> 0]    \* no metadata document yet
    /\ repo = [w \in Workers |-> NoRepoCall]

----------------------------------------------------------------------------
(* core/auth.py *)

ADMIN == "admin"
STAFF == "staff"
UserRole == {ADMIN, STAFF}

\* what a role document can hold: no document, a valid role, a role string
\* outside the enum, or a document without a "role" field
RoleDocs == {"absent", ADMIN, STAFF, "superuser", "no_role_field"}

\* HTTPAuthorizationCredentials handed to extract_token_from_header
Credentials == {"none", "basic_scheme", "bearer_empty", "bearer_token"}

\* what firebase_auth.verify_id_token does with the token
Verifications ==
    {"decoded", "decoded_no_uid", "InvalidIdTokenError", "ExpiredIdTokenError",
     "RevokedIdTokenError", "OtherError"}

\* firebase_admin: ExpiredIdTokenError and RevokedIdTokenError derive from
\* InvalidIdTokenError
IsInstance(exc, cls) ==
    \/ exc = cls
    \/ cls = "InvalidIdTokenError" /\ exc \in {"ExpiredIdTokenError", "RevokedIdTokenError"}
    \/ cls = "Exception"

\* the guards built at the bottom of core/auth.py
require_admin == {ADMIN}
require_staff_or_admin == {STAFF, ADMIN}
Guards == {"require_admin", "require_staff_or_admin", "require_any_authenticated"}

RequiredRoles(guard) ==
    IF guard = "require_admin" THEN require_admin ELSE require_staff_or_admin

NoOutcome == [kind |-> "none", msg |-> ""]
AuthError(m) == [kind |-> "AuthError", msg |-> m]
ForbiddenError == [kind |-> "ForbiddenError", msg |-> "Insufficient permissions"]
AttributeError == [kind |-> "AttributeError", msg |-> "'str' object has no attribute 'value'"]
Authorized == [kind |-> "ok", msg |-> ""]

NoRequest ==
    [creds |-> "none", verify |-> "decoded", uid |-> "u1", email |-> TRUE,
     guard |-> "require_admin"]

Requests ==
    [creds : Credentials, verify : Verifications, uid : Uids, email : BOOLEAN,
     guard : Guards]

\* a request in the form that keeps only what the code reads of it before the
\* role is resolved; the token's email claim and the endpoint's guard are first
\* read in FinishAuthorize and are drawn there
Normal(r) ==
    IF r.creds # "bearer_token"
      THEN [NoRequest EXCEPT !.creds = r.creds]
      ELSE IF r.verify \notin {"decoded"}
        THEN [NoRequest EXCEPT !.creds = r.creds, !.verify = r.verify]
        ELSE [r EXCEPT !.email = TRUE, !.guard = "require_admin"]

extract_token_from_header(creds) ==
    IF creds = "none" THEN AuthError("Authentication required")
    ELSE IF creds = "basic_scheme" THEN AuthError("Invalid authentication scheme")
    ELSE IF creds = "bearer_empty" THEN AuthError("Authentication token required")
    ELSE NoOutcome

\* the except clauses are tried in the order they are written
verify_token(v) ==
    IF v \in {"decoded", "decoded_no_uid"} THEN NoOutcome
    ELSE IF IsInstance(v, "InvalidIdTokenError") THEN AuthError("Invalid authentication token")
    ELSE IF IsInstance(v, "ExpiredIdTokenError") THEN AuthError("Authentication token has expired")
    ELSE IF IsInstance(v, "RevokedIdTokenError")
      THEN AuthError("Authentication token has been revoked")
    ELSE AuthError("Authentication verification failed")

\* AuthenticatedUser(uid=..., email=..., role=role, name=...): the model validates
\* role under use_enum_values = True
AuthenticatedUser(uid, r) == [uid |-> uid, role |-> UseEnumValues(EnumMember(r))]

\* require_role(required_roles).role_checker(user): both branches format
\* user.role.value into the log message before anything else happens
role_checker(user, required_roles) ==
    IF ~EnumIn(user.role, required_roles)
      THEN IF HasValueAttr(user.role) THEN ForbiddenError ELSE AttributeError
      ELSE IF HasValueAttr(user.role) THEN Authorized ELSE AttributeError

\* the tail of authenticate_user once the role is known, followed by the guard
FinishOutcome(r, resolved) ==
    IF ~r.email THEN AuthError("Authentication failed")
    ELSE IF r.guard = "require_any_authenticated" THEN Authorized
    ELSE role_checker(AuthenticatedUser(r.uid, resolved), RequiredRoles(r.guard))

\* no authorization request has been made
AuthIdle ==
    /\ users = [u \in Uids |-> "absent"]
    /\ setWrites = [u \in Uids |-> 0]
    /\ pc = [w \in Workers |-> "idle"]
    /\ req = [w \in Workers |-> NoRequest]
    /\ role = [w \in Workers |-> "none"]
    /\ seen = [w \in Workers |-> "unread"]
    /\ fault = [w \in Workers |-> "none"]
    /\ out = [w \in Workers |-> NoOutcome]
    /\ started = 0

AuthInit ==
    /\ AuthIdle
    /\ ServicesIdle
    /\ SearchIdle
    /\ BulkIdle
    /\ ProcessIdle

\* extract_token_from_header, verify_token and the uid check of authenticate_user:
\* none of them touches the store
StartAuthorize(w) ==
    /\ pc[w] = "idle"
    /\ started < MaxRequests
    /\ \E r \in Requests :
        /\ r = Normal(r)
        /\ req' = [req EXCEPT ![w] = r]
        /\ LET e1 == extract_token_from_header(r.creds)
               e2 == verify_token(r.verify)
           IN IF e1.kind # "none"
                THEN /\ out' = [out EXCEPT ![w] = e1]
                     /\ pc' = [pc EXCEPT ![w] = "done"]
              ELSE IF e2.kind # "none"
                THEN /\ out' = [out EXCEPT ![w] = e2]
                     /\ pc' = [pc EXCEPT ![w] = "done"]
              ELSE IF r.verify = "decoded_no_uid"
                THEN /\ out' = [out EXCEPT ![w] = AuthError("Invalid token: missing user ID")]
                     /\ pc' = [pc EXCEPT ![w] = "done"]
              ELSE /\ out' = [out EXCEPT ![w] = NoOutcome]
                   /\ pc' = [pc EXCEPT ![w] = "get_role"]
    /\ started' = started + 1
    /\ UNCHANGED <<users, setWrites, role, seen, fault, serviceVars, searchVars, bulkVars, procVars>>

\* mutant of GetUserDoc: a failed read falls back to the default role
GetUserDoc_DefaultsOnFailure(w) ==
    /\ pc[w] = "get_role"
    /\ \E fails \in BOOLEAN :
        IF fails
          THEN /\ fault' = [fault EXCEPT ![w] = "read"]
               /\ role' = [role EXCEPT ![w] = STAFF]
               /\ pc' = [pc EXCEPT ![w] = "last_login"]
               /\ UNCHANGED <<seen, out>>
          ELSE LET doc == users[req[w].uid]
                   role_str == IF doc = "no_role_field" THEN STAFF ELSE doc
               IN /\ out' = out
                  /\ seen' = [seen EXCEPT ![w] = doc]
                  /\ fault' = fault
                  /\ IF doc = "absent"
                       THEN /\ pc' = [pc EXCEPT ![w] = "create_default"]
                            /\ role' = role
                     ELSE IF role_str \in UserRole
                       THEN /\ pc' = [pc EXCEPT ![w] = "last_login"]
                            /\ role' = [role EXCEPT ![w] = role_str]
                     ELSE /\ pc' = [pc EXCEPT ![w] = "fix_role"]
                          /\ role' = role
    /\ UNCHANGED <<users, setWrites, req, started, serviceVars, searchVars, bulkVars, procVars>>

\* get_user_role up to the first write: user_doc_ref.get() and the branch on it
GetUserDoc(w) ==
    /\ pc[w] = "get_role"
    /\ \E fails \in BOOLEAN :
        IF fails
          THEN /\ out' = [out EXCEPT ![w] = AuthError("Failed to retrieve user permissions")]
               /\ pc' = [pc EXCEPT ![w] = "done"]
               /\ fault' = [fault EXCEPT ![w] = "read"]
               /\ UNCHANGED <<role, seen>>
          ELSE LET doc == users[req[w].uid]
                   role_str == IF doc = "no_role_field" THEN STAFF ELSE doc
               IN /\ out' = out
                  /\ seen' = [seen EXCEPT ![w] = doc]
                  /\ fault' = fault
                  /\ IF doc = "absent"
                       THEN /\ pc' = [pc EXCEPT ![w] = "create_default"]
                            /\ role' = role
                     ELSE IF role_str \in UserRole
                       THEN /\ pc' = [pc EXCEPT ![w] = "last_login"]
                            /\ role' = [role EXCEPT ![w] = role_str]
                     ELSE /\ pc' = [pc EXCEPT ![w] = "fix_role"]
                          /\ role' = role
    /\ UNCHANGED <<users, setWrites, req, started, serviceVars, searchVars, bulkVars, procVars>>

\* mutant of CreateDefaultUser: the default role is admin
CreateDefaultUser_AsAdmin(w) ==
    /\ pc[w] = "create_default"
    /\ \E fails \in BOOLEAN :
        IF fails
          THEN /\ fault' = [fault EXCEPT ![w] = "write"]
               /\ UNCHANGED <<users, setWrites>>
          ELSE /\ users' = [users EXCEPT ![req[w].uid] = ADMIN]
               /\ setWrites' = [setWrites EXCEPT ![req[w].uid] = @ + 1]
               /\ fault' = fault
    /\ role' = [role EXCEPT ![w] = ADMIN]
    /\ pc' = [pc EXCEPT ![w] = "last_login"]
    /\ UNCHANGED <<req, seen, out, started, serviceVars, searchVars, bulkVars, procVars>>

\* _create_default_user: document.set(...) with role staff; a failure is logged
\* and swallowed, and get_user_role returns STAFF either way
CreateDefaultUser(w) ==
    /\ pc[w] = "create_default"
    /\ \E fails \in BOOLEAN :
        IF fails
          THEN /\ fault' = [fault EXCEPT ![w] = "write"]
               /\ UNCHANGED <<users, setWrites>>
          ELSE /\ users' = [users EXCEPT ![req[w].uid] = STAFF]
               /\ setWrites' = [setWrites EXCEPT ![req[w].uid] = @ + 1]
               /\ fault' = fault
    /\ role' = [role EXCEPT ![w] = STAFF]
    /\ pc' = [pc EXCEPT ![w] = "last_login"]
    /\ UNCHANGED <<req, seen, out, started, serviceVars, searchVars, bulkVars, procVars>>

\* mutant of UpdateUserRole: the role is returned but the document is not written
UpdateUserRole_LeavesDocument(w) ==
    /\ pc[w] = "fix_role"
    /\ \E fails \in BOOLEAN :
        IF fails \/ users[req[w].uid] = "absent"
          THEN /\ fault' = [fault EXCEPT ![w] = "write"]
               /\ users' = users
          ELSE /\ users' = users
               /\ fault' = fault
    /\ role' = [role EXCEPT ![w] = STAFF]
    /\ pc' = [pc EXCEPT ![w] = "last_login"]
    /\ UNCHANGED <<setWrites, req, seen, out, started, serviceVars, searchVars, bulkVars, procVars>>

\* _update_user_role(uid, STAFF): document.update(...) fails when the store does
\* or when the document is gone; the failure is logged and swallowed
UpdateUserRole(w) ==
    /\ pc[w] = "fix_role"
    /\ \E fails \in BOOLEAN :
        IF fails \/ users[req[w].uid] = "absent"
          THEN /\ fault' = [fault EXCEPT ![w] = "write"]
               /\ users' = users
          ELSE /\ users' = [users EXCEPT ![req[w].uid] = STAFF]
               /\ fault' = fault
    /\ role' = [role EXCEPT ![w] = STAFF]
    /\ pc' = [pc EXCEPT ![w] = "last_login"]
    /\ UNCHANGED <<setWrites, req, seen, out, started, serviceVars, searchVars, bulkVars, procVars>>

\* update_last_login (never changes the role, never raises), the construction of
\* AuthenticatedUser, and the guard
FinishAuthorize(w) ==
    /\ pc[w] = "last_login"
    /\ \E e \in BOOLEAN, g \in Guards :
        LET r == [req[w] EXCEPT !.email = e, !.guard = g]
        IN /\ req' = [req EXCEPT ![w] = r]
           /\ out' = [out EXCEPT ![w] = FinishOutcome(r, role[w])]
    /\ pc' = [pc EXCEPT ![w] = "done"]
    /\ UNCHANGED <<users, setWrites, role, seen, fault, started, serviceVars, searchVars, bulkVars, procVars>>

\* the response is sent; the worker takes the next request
Respond(w) ==
    /\ pc[w] = "done"
    /\ pc' = [pc EXCEPT ![w] = "idle"]
    /\ req' = [req EXCEPT ![w] = NoRequest]
    /\ role' = [role EXCEPT ![w] = "none"]
    /\ seen' = [seen EXCEPT ![w] = "unread"]
    /\ fault' = [fault EXCEPT ![w] = "none"]
    /\ out' = [out EXCEPT ![w] = NoOutcome]
    /\ UNCHANGED <<users, setWrites, started, serviceVars, searchVars, bulkVars, procVars>>

\* a write to the users collection from outside the resolver: the application has
\* no endpoint that assigns roles, they are set directly in the store.  Role
\* documents are not deleted.
ExternalRoleWrite ==
    /\ \E u \in Uids, d \in RoleDocs \ {"absent"} :
        /\ users[u] # d
        /\ users' = [users EXCEPT ![u] = d]
    /\ UNCHANGED <<setWrites, pc, req, role, seen, fault, out, started, serviceVars, searchVars, bulkVars, procVars>>

AuthNext ==
    \/ \E w \in Workers : StartAuthorize(w)
    \/ \E w \in Workers : GetUserDoc(w)
    \/ \E w \in Workers : CreateDefaultUser(w)
    \/ \E w \in Workers : UpdateUserRole(w)
    \/ \E w \in Workers : FinishAuthorize(w)
    \/ \E w \in Workers : Respond(w)
    \/ ExternalRoleWrite

SpecAuth == AuthInit /\ [][AuthNext]_vars

----------------------------------------------------------------------------
(* Claims about the authorization gate and the role resolver (SpecAuth) *)

Verifiable(r) == r.creds = "bearer_token" /\ r.verify = "decoded"
RoleGuarded(r) == r.guard # "require_any_authenticated"

\* get_user_role has returned to authenticate_user
Returned(w) == pc[w] \in {"last_login", "done"} /\ role[w] # "none"

\* C1: a verifiable token whose resolved role is not in the guard's allowed set
\* ends in ForbiddenError and never in AuthError; a missing, wrongly-schemed,
\* empty or unverifiable token ends in AuthError and never in ForbiddenError.
C1_Claim ==
    \A w \in Workers :
        pc[w] = "done" =>
            /\ (/\ Verifiable(req[w]) /\ RoleGuarded(req[w])
                /\ role[w] \in UserRole
                /\ role[w] \notin RequiredRoles(req[w].guard))
                    => out[w].kind = "ForbiddenError"
            /\ ~Verifiable(req[w]) => out[w].kind = "AuthError"

\* C2 as stated: a first-time subject resolves to staff, no call raises, and
\* exactly one creating write reaches the store however two calls interleave.
C2_Original ==
    /\ \A u \in Uids : setWrites[u] <= 1
    /\ \A w \in Workers :
          (seen[w] = "absent" /\ Returned(w) /\ fault[w] = "none") =>
              /\ role[w] = STAFF
              /\ setWrites[req[w].uid] = 1

\* C2 as amended: a first-time subject resolves to staff and no call raises; each
\* call that found no record writes it at most once, so two concurrent calls
\* make at most two creating writes (the later overwrites the earlier with the
\* same role), and once a creating write has reached the store the record exists.
C2_CreatedPerCall ==
    /\ \A u \in Uids :
          /\ setWrites[u] <= Cardinality(Workers)
          /\ setWrites[u] >= 1 => users[u] # "absent"
    /\ \A w \in Workers :
          (seen[w] = "absent" /\ pc[w] \in {"last_login", "done"}) =>
              /\ role[w] = STAFF
              /\ out[w].msg # "Failed to retrieve user permissions"
              /\ fault[w] = "none" => setWrites[req[w].uid] >= 1

C2_Witness ==
    \E u \in Uids :
        /\ setWrites[u] = 2
        /\ \A w \in Workers :
              pc[w] = "done" /\ req[w].uid = u /\ seen[w] = "absent" /\ role[w] = STAFF

\* C5 as stated: when the store cannot be read or written while the role is
\* resolved, get_user_role raises AuthError and returns no role.
C5_Original ==
    \A w \in Workers :
        fault[w] # "none" =>
            /\ role[w] = "none"
            /\ pc[w] = "done" => out[w] = AuthError("Failed to retrieve user permissions")

\* C5 as amended: when the store cannot be read, get_user_role raises
\* AuthError("Failed to retrieve user permissions") and returns no role; when
\* the write that would create or correct the role record fails, the failure
\* is absorbed and staff is returned.
C5_ReadFailureRaises ==
    \A w \in Workers :
        /\ fault[w] = "read" =>
              /\ role[w] = "none"
              /\ pc[w] = "done"
              /\ out[w] = AuthError("Failed to retrieve user permissions")
        /\ fault[w] = "write" =>
              /\ role[w] = STAFF
              /\ out[w].msg # "Failed to retrieve user permissions"

C5_Witness ==
    \E w \in Workers :
        /\ fault[w] = "write"
        /\ seen[w] = "absent"
        /\ users[req[w].uid] = "absent"
        /\ pc[w] = "done" /\ role[w] = STAFF

\* C16: a token the provider reports as expired ends in an AuthError whose
\* message is neither the one of an invalid token nor the one of a revoked
\* token, and the message of a revoked token is not the one of an invalid token
C16_Claim ==
    \A w \in Workers :
        (pc[w] = "done" /\ req[w].creds = "bearer_token") =>
            /\ req[w].verify = "ExpiredIdTokenError" =>
                  /\ out[w].kind = "AuthError"
                  /\ out[w].msg # "Invalid authentication token"
                  /\ out[w].msg # "Authentication token has been revoked"
            /\ req[w].verify = "RevokedIdTokenError" =>
                  /\ out[w].kind = "AuthError"
                  /\ out[w].msg # "Invalid authentication token"

\* C17 as stated: a call of get_user_role that found a role string outside the
\* enum returns staff, and once it has returned the stored role of the subject
\* is staff.
C17_Original ==
    \A w \in Workers :
        (seen[w] = "superuser" /\ Returned(w) /\ pc[w] = "last_login") =>
            /\ role[w] = STAFF
            /\ users[req[w].uid] = STAFF

\* C17 as amended: a call of get_user_role that found a role string outside the
\* enum returns staff; the step that corrects the document leaves the stored
\* role staff when its write goes through, and leaves the document as it was,
\* without raising, when the write fails.
C17_RoleIsCorrected ==
    [][\A w \in Workers :
          (pc[w] = "fix_role" /\ pc'[w] # "fix_role") =>
              /\ seen[w] \notin UserRole \cup {"absent", "no_role_field"}
              /\ pc'[w] = "last_login"
              /\ role'[w] = STAFF
              /\ out'[w] = NoOutcome
              /\ IF fault'[w] = "none"
                   THEN users'[req[w].uid] = STAFF
                   ELSE users' = users]_vars

\* a call has found the role "superuser", corrected the document and returned
C17_Witness ==
    \E w \in Workers :
        /\ seen[w] = "superuser"
        /\ pc[w] = "last_login"
        /\ fault[w] = "none"
        /\ role[w] = STAFF
        /\ users[req[w].uid] = STAFF


\* C29: a write of the resolver (_create_default_user or _update_user_role) to
\* a role document that holds a valid role at the time of the write leaves
\* the stored role as it is
C29_Claim ==
    [][\A w \in Workers :
          (/\ pc[w] \in {"create_default", "fix_role"}
           /\ pc'[w] = "last_login"
           /\ users[req[w].uid] \in UserRole)
          => users'[req[w].uid] = users[req[w].uid]]_vars

----------------------------------------------------------------------------
(* Python values.  A str is the sequence of its characters, each a string   *)
(* of length one; a datetime is a point on an integer time line; a list is  *)
(* a list of str.                                                           *)

None == [t |-> "NoneType", s |-> <<>>, n |-> 0, xs |-> <<>>]
Str(s) == [t |-> "str", s |-> s, n |-> 0, xs |-> <<>>]
PyInt(n) == [t |-> "int", s |-> <<>>, n |-> n, xs |-> <<>>]
Datetime(n) == [t |-> "datetime", s |-> <<>>, n |-> n, xs |-> <<>>]
List(xs) == [t |-> "list", s |-> <<>>, n |-> 0, xs |-> xs]

----------------------------------------------------------------------------
(* Python operations on the values of record fields *)

\* the characters of the model in code point order
Alphabet ==
    <<" ", "'", "-", ".", "0", "1", "2", "3", "4", "5", "6", "7", "8", "9", ":", "@",
      "A", "B", "D", "E", "F", "G", "H", "I", "J", "L", "M", "N", "O", "P",
      "R", "S", "T", "U", "V", "X", "Y",
      "a", "b", "d", "e", "f", "g", "h", "i", "j", "l", "m", "n", "o", "p",
      "r", "s", "t", "u", "v", "x", "y">>

\* the letters of the model, upper case and lower case at the same position
ascii_uppercase ==
    <<"A", "B", "D", "E", "F", "G", "H", "I", "J", "L", "M", "N", "O", "P",
      "R", "S", "T", "U", "V", "X", "Y">>

ascii_lowercase ==
    <<"a", "b", "d", "e", "f", "g", "h", "i", "j", "l", "m", "n", "o", "p",
      "r", "s", "t", "u", "v", "x", "y">>

ord(c) == CHOOSE i \in DOMAIN Alphabet : Alphabet[i] = c

\* str.lower() and str.upper() on one character
lower(c) ==
    IF \E i \in DOMAIN ascii_uppercase : ascii_uppercase[i] = c
      THEN ascii_lowercase[CHOOSE i \in DOMAIN ascii_uppercase : ascii_uppercase[i] = c]
      ELSE c

upper(c) ==
    IF \E i \in DOMAIN ascii_lowercase : ascii_lowercase[i] = c
      THEN ascii_uppercase[CHOOSE i \in DOMAIN ascii_lowercase : ascii_lowercase[i] = c]
      ELSE c

str_lower(s) == [i \in DOMAIN s |-> lower(s[i])]

str_upper(s) == [i \in DOMAIN s |-> upper(s[i])]

\* str.isalpha() on a character
isalpha(c) ==
    \/ \E i \in DOMAIN ascii_uppercase : ascii_uppercase[i] = c
    \/ \E i \in DOMAIN ascii_lowercase : ascii_lowercase[i] = c

isdigit(c) == c \in {"0", "1", "2", "3", "4", "5", "6", "7", "8", "9"}

\* str.strip(): without the spaces at either end
RECURSIVE str_strip(_)
str_strip(s) ==
    IF s = <<>> THEN s
    ELSE IF Head(s) = " " THEN str_strip(Tail(s))
    ELSE IF s[Len(s)] = " " THEN str_strip(SubSeq(s, 1, Len(s) - 1))
    ELSE s

\* `sub in s` on two str
str_in(sub, s) ==
    \E i \in 0 .. (Len(s) - Len(sub)) : SubSeq(s, i + 1, i + Len(sub)) = sub

\* s < t on two str: by code point, a proper prefix first
RECURSIVE str_lt(_, _)
str_lt(s, t) ==
    IF t = <<>> THEN FALSE
    ELSE IF s = <<>> THEN TRUE
    ELSE IF Head(s) = Head(t) THEN str_lt(Tail(s), Tail(t))
    ELSE ord(Head(s)) < ord(Head(t))

\* str.split(): the maximal runs of characters other than whitespace
RECURSIVE str_split(_)
str_split(s) ==
    IF s = <<>> THEN <<>>
    ELSE IF Head(s) = " " THEN str_split(Tail(s))
    ELSE LET n == IF \E i \in DOMAIN s : s[i] = " "
                    THEN (CHOOSE i \in DOMAIN s :
                             s[i] = " " /\ \A j \in 1 .. (i - 1) : s[j] # " ") - 1
                    ELSE Len(s)
         IN <<SubSeq(s, 1, n)>> \o str_split(SubSeq(s, n + 1, Len(s)))

Digit(n) == Alphabet[ord("0") + n]

\* str(value); a datetime n is day n of January 2024 at midnight
str(v) ==
    CASE v.t = "str" -> v.s
      [] v.t = "NoneType" -> <<"N", "o", "n", "e">>
      [] v.t = "int" -> <<Digit(v.n)>>
      [] v.t = "datetime" ->
            <<"2", "0", "2", "4", "-", "0", "1", "-", "0", Digit(v.n), " ",
              "0", "0", ":", "0", "0", ":", "0", "0">>
      [] OTHER -> <<>>

\* bool(value)
truthy(v) ==
    CASE v.t = "NoneType" -> FALSE
      [] v.t = "str" -> v.s # <<>>
      [] v.t = "int" -> v.n # 0
      [] v.t = "list" -> v.xs # <<>>
      [] OTHER -> TRUE

\* a == b
py_eq(a, b) == a.t = b.t /\ a = b

\* a < b is defined between two str, two int, two datetime; otherwise TypeError
Comparable(a, b) == a.t = b.t /\ a.t \in {"str", "int", "datetime"}

py_lt(a, b) == IF a.t = "str" THEN str_lt(a.s, b.s) ELSE a.n < b.n

\* a in b is defined for a list b and for two str; otherwise TypeError
Containable(a, b) == b.t = "list" \/ (b.t = "str" /\ a.t = "str")

py_in(a, b) ==
    IF b.t = "list" THEN a.t = "str" /\ \E i \in DOMAIN b.xs : b.xs[i] = a.s
    ELSE str_in(a.s, b.s)

\* getattr(student, field_name, None)
getattr(student, field_name) ==
    CASE field_name = "name" -> student.name
      [] field_name = "email" -> student.email
      [] field_name = "phone" -> student.phone
      [] field_name = "country" -> student.country
      [] field_name = "grade" -> student.grade
      [] field_name = "application_status" -> student.application_status
      [] field_name = "last_active" -> student.last_active
      [] field_name = "created_at" -> student.created_at
      [] field_name = "updated_at" -> student.updated_at
      [] OTHER -> None

----------------------------------------------------------------------------
(* Student documents (schemas/student.py, repositories/students.py) *)

MaxStudents == 2

\* document ids are opaque; the id with number n stands for one id string, and
\* the numbers give the order of the id strings
StudentIds == 1 .. MaxStudents

\* the empty id string, which the services reject
EmptyId == 0

EXPLORING == <<"E", "x", "p", "l", "o", "r", "i", "n", "g">>
SHORTLISTING == <<"S", "h", "o", "r", "t", "l", "i", "s", "t", "i", "n", "g">>
APPLYING == <<"A", "p", "p", "l", "y", "i", "n", "g">>
SUBMITTED == <<"S", "u", "b", "m", "i", "t", "t", "e", "d">>

\* the members of ApplicationStatus in declaration order
ApplicationStatus == <<EXPLORING, SHORTLISTING, APPLYING, SUBMITTED>>

USA == <<"U", "S", "A">>
IND == <<"I", "N", "D">>

\* StudentCreate payloads that pass the validators of StudentBase
JohnDoe ==
    [name |-> Str(<<"J", "o", "h", "n", " ", "D", "o", "e">>),
     email |-> Str(<<"d", "o", "e", "@", "a", ".", "i", "o">>),
     phone |-> None, country |-> Str(USA), grade |-> Str(<<"1", "2">>),
     application_status |-> Str(EXPLORING)]

JonLee ==
    [name |-> Str(<<"J", "o", "n", " ", "L", "e", "e">>),
     email |-> Str(<<"j", "o", "h", "n", "@", "b", ".", "i", "o">>),
     phone |-> None, country |-> Str(IND), grade |-> None,
     application_status |-> Str(APPLYING)]

JohnnyFive ==
    [name |-> Str(<<"J", "o", "h", "n", "n", "y", " ", "F", "i", "v", "e">>),
     email |-> Str(<<"f", "i", "v", "e", "@", "a", ".", "i", "o">>),
     phone |-> None, country |-> Str(USA), grade |-> Str(<<"1", "1">>),
     application_status |-> Str(SUBMITTED)]

Profiles == {JohnDoe, JonLee, JohnnyFive}

\* the document create_student writes: the payload, the id and both timestamps
Student(id, data, now) ==
    [id |-> id, name |-> data.name, email |-> data.email, phone |-> data.phone,
     country |-> data.country, grade |-> data.grade,
     application_status |-> data.application_status,
     last_active |-> Datetime(now),
     created_at |-> Datetime(now), updated_at |-> Datetime(now)]

DocExists(store, id) == \E s \in store : s.id = id
Doc(store, id) == CHOOSE s \in store : s.id = id

\* collection.document(): an id no stored document has
NewDocumentId(store) ==
    CHOOSE n \in 1 .. (Cardinality(store) + 1) :
        /\ ~DocExists(store, n)
        /\ \A m \in 1 .. (n - 1) : DocExists(store, m)

HasFreeId(store) == \E id \in StudentIds : ~DocExists(store, id)

\* datetime.utcnow() during a service call: the calls are made one after the
\* other and the clock advances between them
utcnow == ops + 1

\* StudentUpdate payloads; dict(exclude_unset=True) holds the one field set
StudentUpdates ==
    {[field |-> "application_status", value |-> Str(SUBMITTED)],
     [field |-> "grade", value |-> Str(<<"1", "2">>)]}

\* mutant of ApplyUpdate: the update leaves updated_at as it was
ApplyUpdate_KeepsUpdatedAt(s, u, now) ==
    IF u.field = "grade"
      THEN [s EXCEPT !.grade = u.value]
      ELSE [s EXCEPT !.application_status = u.value]

\* doc_ref.update(update_dict): the fields that were set, and updated_at
ApplyUpdate(s, u, now) ==
    IF u.field = "grade"
      THEN [s EXCEPT !.grade = u.value, !.updated_at = Datetime(now)]
      ELSE [s EXCEPT !.application_status = u.value, !.updated_at = Datetime(now)]

----------------------------------------------------------------------------
(* The audit sink (core/audit.py) *)

MaxOps == 2
MaxRows == 3
MaxRecipients == 2

AuditActions ==
    {"create_student", "view_student", "update_student", "delete_student",
     "search_students", "bulk_import_students", "export_students",
     "upload_file", "delete_file", "send_email"}

LOW == "low"
MEDIUM == "medium"
HIGH == "high"

AuditLogEntry(user, action, target_type, severity, success) ==
    [user_id |-> user.uid, user_role |-> user.role.value, action |-> action,
     target_type |-> target_type, severity |-> severity, success |-> success]

AuditId(n) == "audit_" \o ToString(n)

\* mutant of log_action: a failure to build or persist the entry propagates
log_action_Reraises(logs, user, action, target_type, severity, success, sinkUp) ==
    IF ~HasValueAttr(user.role) \/ ~sinkUp
      THEN [raised |-> TRUE, id |-> "", logs |-> logs]
      ELSE [raised |-> FALSE, id |-> AuditId(Len(logs) + 1),
            logs |-> Append(logs, AuditLogEntry(user, action, target_type,
                                                severity, success))]

\* log_action: the entry is built (user.role.value) and added to the collection
\* inside one try; the handler of every Exception returns the placeholder id
log_action(logs, user, action, target_type, severity, success, sinkUp) ==
    IF ~HasValueAttr(user.role)
      THEN [raised |-> FALSE, id |-> "audit_log_failed", logs |-> logs]
    ELSE IF ~sinkUp
      THEN [raised |-> FALSE, id |-> "audit_log_failed", logs |-> logs]
    ELSE [raised |-> FALSE, id |-> AuditId(Len(logs) + 1),
          logs |-> Append(logs, AuditLogEntry(user, action, target_type,
                                              severity, success))]

severity_map(action) ==
    IF action \in {"delete_student", "bulk_import_students"} THEN HIGH
    ELSE IF action = "view_student" THEN LOW
    ELSE MEDIUM

log_student_action(logs, user, action, success, sinkUp) ==
    log_action(logs, user, action, "student", severity_map(action), success, sinkUp)

log_file_action(logs, user, action, success, sinkUp) ==
    log_action(logs, user, action, "file",
               IF action = "delete_file" THEN HIGH ELSE MEDIUM, success, sinkUp)

log_email_action(logs, user, success, sinkUp) ==
    log_action(logs, user, "send_email", "email", LOW, success, sinkUp)

\* the audit calls one service call has made so far: whether one of them raised,
\* the ids they returned, and the collection after them
NoAuditCall(logs) == [raised |-> FALSE, ids |-> <<>>, logs |-> logs]

AuditCall(before, r) ==
    [raised |-> before.raised \/ r.raised,
     ids |-> IF r.raised THEN before.ids ELSE Append(before.ids, r.id),
     logs |-> r.logs]

----------------------------------------------------------------------------
(* The services that sit behind the authorization gate *)

\* the principals authenticate_user hands to the services
Principals == {AuthenticatedUser("u1", ADMIN), AuthenticatedUser("u2", STAFF)}

OpReturned(successful, failed, flag) ==
    [kind |-> "returned", code |-> "", successful |-> successful,
     failed |-> failed, flag |-> flag]

OpRaised(code) ==
    [kind |-> "raised", code |-> code, successful |-> 0, failed |-> 0,
     flag |-> FALSE]

\* the record of a completed call: `business` is how the call ends by its own
\* logic, `outcome` is what its caller observes (an exception escaping from an
\* audit call replaces the business outcome)
Completed(name, user, sinkUp, business, r) ==
    [name |-> name, uid |-> user.uid, sinkUp |-> sinkUp, business |-> business,
     outcome |-> IF r.raised THEN OpRaised("Exception") ELSE business,
     audit_ids |-> r.ids, log_raised |-> r.raised,
     appended |-> Len(r.logs) - Len(audit_logs)]

Finish(name, user, sinkUp, business, r) ==
    /\ op' = Completed(name, user, sinkUp, business, r)
    /\ audit_logs' = r.logs
    /\ ops' = ops + 1

\* StudentService.create_student -> StudentRepository.create_student
create_student(user) ==
    /\ ops < MaxOps
    /\ HasFreeId(students)
    /\ \E data \in Profiles, storeUp \in BOOLEAN :
        IF storeUp
          THEN /\ students' = students \cup {Student(NewDocumentId(students), data, utcnow)}
               /\ Finish("create_student", user, TRUE, OpReturned(1, 0, TRUE),
                         NoAuditCall(audit_logs))
          ELSE /\ students' = students
               /\ Finish("create_student", user, TRUE, OpRaised("INTERNAL"),
                         NoAuditCall(audit_logs))
    /\ UNCHANGED <<files, email_logs, authVars, searchVars, bulkVars, procVars>>

\* StudentService.get_student_by_id; its _update_last_active builds
\* StudentUpdate(last_active=...), which the model forbids (extra = "forbid"),
\* and swallows the error: nothing is written
get_student_by_id(user) ==
    /\ ops < MaxOps
    /\ \E id \in StudentIds \cup {EmptyId}, storeUp \in BOOLEAN :
        Finish("get_student_by_id", user, TRUE,
               IF id = EmptyId THEN OpRaised("VALIDATION")
               ELSE IF ~storeUp THEN OpRaised("INTERNAL")
               ELSE IF ~DocExists(students, id) THEN OpRaised("NOT_FOUND")
               ELSE OpReturned(1, 0, TRUE),
               NoAuditCall(audit_logs))
    /\ UNCHANGED <<students, files, email_logs, authVars, searchVars, bulkVars, procVars>>

\* StudentService.update_student -> StudentRepository.update_student
update_student(user) ==
    /\ ops < MaxOps
    /\ \E id \in StudentIds \cup {EmptyId}, u \in StudentUpdates, storeUp \in BOOLEAN :
        IF id # EmptyId /\ storeUp /\ DocExists(students, id)
          THEN /\ students' = (students \ {Doc(students, id)})
                                \cup {ApplyUpdate(Doc(students, id), u, utcnow)}
               /\ Finish("update_student", user, TRUE, OpReturned(1, 0, TRUE),
                         NoAuditCall(audit_logs))
          ELSE /\ students' = students
               /\ Finish("update_student", user, TRUE,
                         IF id = EmptyId THEN OpRaised("VALIDATION")
                         ELSE IF ~storeUp THEN OpRaised("INTERNAL")
                         ELSE OpRaised("NOT_FOUND"),
                         NoAuditCall(audit_logs))
    /\ UNCHANGED <<files, email_logs, authVars, searchVars, bulkVars, procVars>>

\* StudentService.delete_student -> StudentRepository.delete_student
delete_student(user) ==
    /\ ops < MaxOps
    /\ \E id \in StudentIds \cup {EmptyId}, storeUp \in BOOLEAN :
        IF id # EmptyId /\ storeUp /\ DocExists(students, id)
          THEN /\ students' = students \ {Doc(students, id)}
               /\ Finish("delete_student", user, TRUE, OpReturned(1, 0, TRUE),
                         NoAuditCall(audit_logs))
          ELSE /\ students' = students
               /\ Finish("delete_student", user, TRUE,
                         IF id = EmptyId THEN OpRaised("VALIDATION")
                         ELSE IF ~storeUp THEN OpRaised("INTERNAL")
                         ELSE OpRaised("NOT_FOUND"),
                         NoAuditCall(audit_logs))
    /\ UNCHANGED <<files, email_logs, authVars, searchVars, bulkVars, procVars>>

\* BulkOperationsService.max_import_rows
max_import_rows == 1000

\* a line of an import file: the text of its cells, an empty cell being <<>>
Line(name, email, country, grade, application_status) ==
    [name |-> name, email |-> email, country |-> country, grade |-> grade,
     application_status |-> application_status]

\* a line with no character on it
BlankLine == [blank |-> TRUE]

\* mutant of parse_csv_content: the header line is not counted
parse_csv_content_NumbersFromOne(lines) ==
    LET yielded(l) == l # BlankLine
        read == SelectSeq(lines, yielded)
        cleaned == [i \in DOMAIN read |->
                       [name |-> str_strip(read[i].name),
                        email |-> str_strip(read[i].email),
                        country |-> str_strip(read[i].country),
                        grade |-> str_strip(read[i].grade),
                        application_status |-> str_strip(read[i].application_status),
                        _row_number |-> i]]
        kept(row) == \/ row.name # <<>> \/ row.email # <<>> \/ row.country # <<>>
                     \/ row.grade # <<>> \/ row.application_status # <<>>
    IN SelectSeq(cleaned, kept)

\* _parse_csv_content: csv.DictReader leaves out blank lines and the rows it
\* yields are numbered from 2; cells are stripped, empty cells are removed, and
\* a row that keeps no cell is left out
parse_csv_content(lines) ==
    LET yielded(l) == l # BlankLine
        read == SelectSeq(lines, yielded)
        cleaned == [i \in DOMAIN read |->
                       [name |-> str_strip(read[i].name),
                        email |-> str_strip(read[i].email),
                        country |-> str_strip(read[i].country),
                        grade |-> str_strip(read[i].grade),
                        application_status |-> str_strip(read[i].application_status),
                        _row_number |-> i + 1]]
        kept(row) == \/ row.name # <<>> \/ row.email # <<>> \/ row.country # <<>>
                     \/ row.grade # <<>> \/ row.application_status # <<>>
    IN SelectSeq(cleaned, kept)

\* _parse_json_content over an array of objects: every object is a row, numbered
\* from 1; an empty cell stands for a key the object does not have
parse_json_content(lines) ==
    [i \in DOMAIN lines |->
        [name |-> lines[i].name, email |-> lines[i].email,
         country |-> lines[i].country, grade |-> lines[i].grade,
         application_status |-> lines[i].application_status,
         _row_number |-> i]]

\* the pattern of validate_name: letters, whitespace, hyphen, apostrophe, period
name_chars(s) == \A i \in DOMAIN s : isalpha(s[i]) \/ s[i] \in {" ", "-", "'", "."}

\* the pattern of validate_grade: letters, digits, whitespace, hyphen, period
grade_chars(s) ==
    \A i \in DOMAIN s : isalpha(s[i]) \/ isdigit(s[i]) \/ s[i] \in {" ", "-", "."}

\* EmailStr: one "@" after a local part, then a domain of dot-separated labels
valid_email(s) ==
    /\ Cardinality({i \in DOMAIN s : s[i] = "@"}) = 1
    /\ \A i \in DOMAIN s : s[i] # " "
    /\ LET at == CHOOSE i \in DOMAIN s : s[i] = "@"
           domain == SubSeq(s, at + 1, Len(s))
       IN /\ at > 1
          /\ \E i \in DOMAIN domain : domain[i] = "."
          /\ domain[1] # "."
          /\ domain[Len(domain)] # "."

\* the value EmailStr keeps: the domain in lower case
normalized_email(s) ==
    LET at == CHOOSE i \in DOMAIN s : s[i] = "@"
    IN SubSeq(s, 1, at) \o str_lower(SubSeq(s, at + 1, Len(s)))

\* the status _convert_row_to_student_create passes on: the first member whose
\* value matches without regard to case, else the raw text
matched_status(status_value) ==
    LET matches == {i \in DOMAIN ApplicationStatus :
                       str_lower(ApplicationStatus[i]) = str_lower(status_value)}
    IN IF matches = {} THEN status_value
       ELSE ApplicationStatus[CHOOSE i \in matches : \A k \in matches : i <= k]

\* _convert_row_to_student_create: StudentCreate(**student_data) raises a
\* pydantic ValidationError when a required field is missing or a field fails
\* its constraints or its validator; otherwise the payload holds the validated
\* values
convert_row_to_student_create(row) ==
    LET name_ok == /\ row.name # <<>>
                   /\ str_strip(row.name) # <<>>
                   /\ name_chars(str_strip(row.name))
        email_ok == row.email # <<>> /\ valid_email(row.email)
        country_ok == /\ Len(row.country) = 3
                      /\ \A i \in DOMAIN row.country : isalpha(row.country[i])
        grade_ok == \/ row.grade = <<>>
                    \/ str_strip(row.grade) # <<>> /\ grade_chars(str_strip(row.grade))
        status_ok == \/ row.application_status = <<>>
                     \/ matched_status(row.application_status)
                           \in {ApplicationStatus[i] : i \in DOMAIN ApplicationStatus}
    IN IF name_ok /\ email_ok /\ country_ok /\ grade_ok /\ status_ok
         THEN [raised |-> FALSE,
               data |->
                 [name |-> Str(str_strip(row.name)),
                  email |-> Str(normalized_email(row.email)),
                  phone |-> None,
                  country |-> Str(str_upper(row.country)),
                  grade |-> IF row.grade = <<>> THEN None ELSE Str(str_strip(row.grade)),
                  application_status |->
                     IF row.application_status = <<>> THEN Str(EXPLORING)
                     ELSE Str(matched_status(row.application_status))]]
         ELSE [raised |-> TRUE, data |-> None]

\* ImportError(...).model_dump(), without the copy of the row and the messages
ImportError(row_number, error_type) ==
    [row_number |-> row_number, error_type |-> error_type]

\* mutant of row_outcome: a converted row is created even when validate_only
row_outcome_AlwaysCreates(row, validate_only, down) ==
    LET converted == convert_row_to_student_create(row)
        store_fails == row._row_number \in down
    IN [row_number |-> row._row_number,
        data |-> converted.data,
        created |-> ~converted.raised /\ ~store_fails,
        error_type |-> IF converted.raised THEN "ValidationError"
                       ELSE IF store_fails THEN "AppError"
                       ELSE ""]

\* one pass of the loop of _process_import_rows over a row: the row converts
\* to a payload or raises; a converted row is created unless validate_only; the
\* creation raises AppError when the store fails.  `down` holds the row numbers
\* at which the store fails.
row_outcome(row, validate_only, down) ==
    LET converted == convert_row_to_student_create(row)
        store_fails == ~validate_only /\ row._row_number \in down
    IN [row_number |-> row._row_number,
        data |-> converted.data,
        created |-> ~converted.raised /\ ~validate_only /\ ~store_fails,
        error_type |-> IF converted.raised THEN "ValidationError"
                       ELSE IF store_fails THEN "AppError"
                       ELSE ""]

\* the first n ids that no document of the store has, in increasing order: the
\* ids collection.document() hands out to n documents created one after another
NewDocumentIds(store, n) ==
    LET unused(id) == ~DocExists(store, id)
    IN SubSeq(SelectSeq([id \in 1 .. (Cardinality(store) + n) |-> id], unused), 1, n)

\* the ImportResult and the store after the loop has made the passes `outcomes`
\* over a file of `rows`
import_result(rows, outcomes, store, now) ==
    LET created(outcome) == outcome.created
        failed(outcome) == outcome.error_type # ""
        creations == SelectSeq(outcomes, created)
        failures == SelectSeq(outcomes, failed)
        ids == NewDocumentIds(store, Len(creations))
    IN [store |-> store \cup {Student(ids[k], creations[k].data, now) :
                                 k \in DOMAIN creations},
        total_rows |-> Len(rows),
        successful_imports |-> Len(outcomes) - Len(failures),
        failed_imports |-> Len(failures),
        errors |-> [k \in DOMAIN failures |->
                       ImportError(failures[k].row_number, failures[k].error_type)],
        created_student_ids |-> ids]

\* mutant of process_import_rows: the first row that fails ends the loop
process_import_rows_StopsAtFailure(rows, store, validate_only, down, now) ==
    LET outcomes == [i \in DOMAIN rows |-> row_outcome(rows[i], validate_only, down)]
        failing == {i \in DOMAIN rows : outcomes[i].error_type # ""}
        last == IF failing = {} THEN Len(rows)
                ELSE CHOOSE i \in failing : \A k \in failing : i <= k
    IN import_result(rows, SubSeq(outcomes, 1, last), store, now)

\* _process_import_rows: the loop visits every row; a row whose conversion or
\* creation raises is recorded in errors and the loop goes on
process_import_rows(rows, store, validate_only, down, now) ==
    import_result(rows, [i \in DOMAIN rows |-> row_outcome(rows[i], validate_only, down)],
                  store, now)

\* what import_students_from_file raises for a file-level problem
ImportRaised(code, request) == [kind |-> "raised", code |-> code, request |-> request]

\* mutant of exceeds_max_import_rows: no file is too long
exceeds_max_import_rows_Never(student_data_list) == FALSE

\* len(student_data_list) > self.max_import_rows
exceeds_max_import_rows(student_data_list) == Len(student_data_list) > max_import_rows

\* the try block of import_students_from_file: the format is detected from the
\* file name, the content is parsed, the row count is checked, the rows are
\* processed
import_students(request, store, now) ==
    IF request.file.format \notin {"csv", "json"} \/ ~request.file.parses
      THEN [store |-> store, returned |-> ImportRaised("VALIDATION", request)]
    ELSE LET student_data_list ==
                 IF request.file.format = "csv"
                   THEN parse_csv_content(request.file.lines)
                   ELSE parse_json_content(request.file.lines)
         IN IF exceeds_max_import_rows(student_data_list)
              THEN [store |-> store, returned |-> ImportRaised("VALIDATION", request)]
              ELSE LET r == process_import_rows(student_data_list, store,
                                                request.validate_only, request.down, now)
                   IN [store |-> r.store,
                       returned |->
                          [kind |-> "import", code |-> "", request |-> request,
                           rows |-> student_data_list,
                           total_rows |-> r.total_rows,
                           successful_imports |-> r.successful_imports,
                           failed_imports |-> r.failed_imports,
                           errors |-> r.errors,
                           created_student_ids |-> r.created_student_ids]]

\* BulkOperationsService.import_students_from_file
import_students_from_file(user, requests, sinks) ==
    /\ ops < MaxOps
    /\ \E request \in requests, sinkUp \in sinks :
        /\ \E done \in {import_students(request, students, utcnow)} :
              /\ bulk' = done.returned
              /\ students' = done.store
        /\ IF bulk'.kind = "raised"
             THEN Finish("import_students_from_file", user, sinkUp,
                         OpRaised(bulk'.code),
                         AuditCall(NoAuditCall(audit_logs),
                                   log_student_action(audit_logs, user,
                                       "bulk_import_students", FALSE, sinkUp)))
             ELSE Finish("import_students_from_file", user, sinkUp,
                         OpReturned(bulk'.successful_imports, bulk'.failed_imports, TRUE),
                         AuditCall(NoAuditCall(audit_logs),
                                   log_student_action(audit_logs, user,
                                       "bulk_import_students",
                                       bulk'.failed_imports = 0, sinkUp)))
    /\ UNCHANGED <<files, email_logs, authVars, searchVars, procVars>>

\* _get_students_for_export calls student_service.list_students(limit=10000,
\* offset=0); StudentService.list_students takes page and page_size and has no
\* parameter `limit`, so the call raises TypeError, which the method turns into
\* AppError(code="EXPORT_QUERY_ERROR")
get_students_for_export == OpRaised("EXPORT_QUERY_ERROR")

\* BulkOperationsService.export_students
export_students(user) ==
    /\ ops < MaxOps
    /\ \E sinkUp \in BOOLEAN :
        /\ bulk' = [kind |-> get_students_for_export.kind,
                    code |-> get_students_for_export.code]
        /\ Finish("export_students", user, sinkUp, get_students_for_export,
                  AuditCall(NoAuditCall(audit_logs),
                            log_student_action(audit_logs, user, "export_students",
                                               get_students_for_export.kind = "returned",
                                               sinkUp)))
    /\ UNCHANGED <<students, files, email_logs, authVars, searchVars, procVars>>

\* FileStorageService.upload_file; uuid4() gives an id no file has
upload_file(user) ==
    /\ ops < MaxOps
    /\ \E f \in FileIds : files[f] = "absent"
    /\ \E valid \in BOOLEAN, storeUp \in BOOLEAN, sinkUp \in BOOLEAN,
          student_id \in StudentIds :
        LET f == CHOOSE x \in FileIds : files[x] = "absent"
            business == IF ~valid THEN OpRaised("VALIDATION")
                        ELSE IF ~storeUp THEN OpRaised("METADATA_STORAGE_ERROR")
                        ELSE OpReturned(1, 0, TRUE)
        IN /\ files' = IF business.kind = "returned"
                         THEN [files EXCEPT ![f] = "uploaded"] ELSE files
           /\ file_student' = IF business.kind = "returned"
                                THEN [file_student EXCEPT ![f] = student_id]
                                ELSE file_student
           /\ Finish("upload_file", user, sinkUp, business,
                     AuditCall(NoAuditCall(audit_logs),
                               log_file_action(audit_logs, user, "upload_file",
                                               business.kind = "returned", sinkUp)))
    /\ UNCHANGED <<students, email_logs, authVars, searchVars, bulkVars, dbVars, repo>>

\* mutant of delete_file: the metadata document is removed
delete_file_RemovesDocument(user) ==
    /\ ops < MaxOps
    /\ \E f \in FileIds, storeUp \in BOOLEAN, sinkUp \in BOOLEAN :
        LET found == storeUp /\ files[f] # "absent"
        IN /\ files' = IF found THEN [files EXCEPT ![f] = "absent"] ELSE files
           /\ Finish("delete_file", user, sinkUp, OpReturned(0, 0, found),
                     AuditCall(NoAuditCall(audit_logs),
                               log_file_action(audit_logs, user, "delete_file",
                                               found, sinkUp)))
    /\ UNCHANGED <<students, email_logs, authVars, searchVars, bulkVars, procVars>>

\* FileStorageService.delete_file: the status becomes "deleted"; every failure
\* (the file is not found, the store is down) is caught and False is returned
delete_file(user) ==
    /\ ops < MaxOps
    /\ \E f \in FileIds, storeUp \in BOOLEAN, sinkUp \in BOOLEAN :
        LET found == storeUp /\ files[f] # "absent"
        IN /\ files' = IF found THEN [files EXCEPT ![f] = "deleted"] ELSE files
           /\ Finish("delete_file", user, sinkUp, OpReturned(0, 0, found),
                     AuditCall(NoAuditCall(audit_logs),
                               log_file_action(audit_logs, user, "delete_file",
                                               found, sinkUp)))
    /\ UNCHANGED <<students, email_logs, authVars, searchVars, bulkVars, procVars>>

\* the loop of send_email over the recipients: one EmailLog and one audit call
\* per recipient, sent or failed
RECURSIVE send_each(_, _, _, _)
send_each(deliveries, before, user, sinkUp) ==
    IF deliveries = <<>> THEN before
    ELSE send_each(Tail(deliveries),
                   AuditCall(before, log_email_action(before.logs, user,
                                                      Head(deliveries), sinkUp)),
                   user, sinkUp)

DeliveryLists == UNION {[1 .. n -> BOOLEAN] : n \in 0 .. MaxRecipients}

\* NotificationService.send_email
send_email(user) ==
    /\ ops < MaxOps
    /\ \E deliveries \in DeliveryLists, sinkUp \in BOOLEAN :
        IF deliveries = <<>>
          THEN /\ email_logs' = email_logs
               /\ Finish("send_email", user, sinkUp, OpRaised("VALIDATION"),
                         NoAuditCall(audit_logs))
          ELSE /\ email_logs' = email_logs \o
                     [i \in DOMAIN deliveries |->
                         IF deliveries[i] THEN "sent" ELSE "failed"]
               /\ Finish("send_email", user, sinkUp,
                         OpReturned(Cardinality({i \in DOMAIN deliveries : deliveries[i]}),
                                    Cardinality({i \in DOMAIN deliveries : ~deliveries[i]}),
                                    TRUE),
                         send_each(deliveries, NoAuditCall(audit_logs), user, sinkUp))
    /\ UNCHANGED <<students, files, authVars, searchVars, bulkVars, procVars>>

----------------------------------------------------------------------------
(* StudentRepository.list_students *)

\* the largest page list_students serves: limit = min(max(limit, 1), 100)
list_limit_cap == 100

Min(a, b) == IF a <= b THEN a ELSE b
Max(a, b) == IF a >= b THEN a ELSE b

\* order_by("created_at", direction="DESCENDING"); Firestore orders documents
\* with equal created_at by document id, in the same direction
ListedBefore(a, b) ==
    \/ a.created_at.n > b.created_at.n
    \/ a.created_at.n = b.created_at.n /\ a.id > b.id

RECURSIVE order_by_created_at(_)
order_by_created_at(store) ==
    IF store = {} THEN <<>>
    ELSE LET first == CHOOSE a \in store : \A b \in store : b.id = a.id \/ ListedBefore(a, b)
         IN <<first>> \o order_by_created_at(store \ {first})

list_students(store, limit, offset) ==
    LET lim == Min(Max(limit, 1), list_limit_cap)
        off == Max(offset, 0)
        docs == order_by_created_at(store)
    IN SubSeq(docs, off + 1, Min(off + lim, Len(docs)))

----------------------------------------------------------------------------
(* The search engine (services/search.py) *)

\* SearchService.max_results
max_results == 1000

\* the limit search_students passes to list_students for its snapshots
snapshot_limit == 10000

SearchFields ==
    {"name", "email", "phone", "country", "grade", "application_status",
     "last_active", "created_at", "updated_at"}

DateFields == {"last_active", "created_at", "updated_at"}

ASC == "asc"
DESC == "desc"

FilterOperators == {"eq", "ne", "gt", "gte", "lt", "lte", "contains", "in"}

\* SearchFilter(field=..., operator=..., value=...): field is validated, so it
\* is stored as the member's value
SearchFilter(field, operator, value) ==
    [field |-> UseEnumValues(EnumMember(field)), operator |-> operator, value |-> value]

DateRangeFilter(field, start_date, end_date) ==
    [field |-> UseEnumValues(EnumMember(field)), start_date |-> start_date,
     end_date |-> end_date]

Unset == "unset"

\* SearchQuery(**a): an argument that is given is validated (enum members become
\* their values), one that is left out keeps the declared default as it is
SearchQuery(a) ==
    [text_query |-> a.text_query,
     search_fields |->
        IF a.search_fields.given
          THEN [i \in DOMAIN a.search_fields.names |->
                   UseEnumValues(EnumMember(a.search_fields.names[i]))]
          ELSE <<EnumMember("name"), EnumMember("email")>>,
     filters |-> a.filters,
     date_filters |-> a.date_filters,
     application_statuses |->
        [i \in DOMAIN a.application_statuses |->
            UseEnumValues(EnumMember(a.application_statuses[i]))],
     countries |-> a.countries,
     sort_field |-> IF a.sort_field = Unset THEN EnumMember("created_at")
                    ELSE UseEnumValues(EnumMember(a.sort_field)),
     sort_order |-> IF a.sort_order = Unset THEN EnumMember(DESC)
                    ELSE UseEnumValues(EnumMember(a.sort_order)),
     limit |-> a.limit,
     offset |-> a.offset]

\* _validate_search_query: TRUE iff it raises ValidationError
validate_search_query(query) ==
    \/ query.limit > max_results
    \/ \E i \in DOMAIN query.filters : query.filters[i].operator \notin FilterOperators
    \/ \E i \in DOMAIN query.date_filters :
          /\ truthy(query.date_filters[i].start_date)
          /\ truthy(query.date_filters[i].end_date)
          /\ query.date_filters[i].start_date.n > query.date_filters[i].end_date.n

FilterConfig(field, operator, value) ==
    [field |-> field, operator |-> operator, value |-> value]

RECURSIVE date_filter_configs(_)
date_filter_configs(dfs) ==
    IF dfs = <<>> THEN <<>>
    ELSE LET df == Head(dfs)
         IN (IF truthy(df.start_date)
               THEN <<FilterConfig(df.field.value, "gte", df.start_date)>> ELSE <<>>)
            \o (IF truthy(df.end_date)
                  THEN <<FilterConfig(df.field.value, "lte", df.end_date)>> ELSE <<>>)
            \o date_filter_configs(Tail(dfs))

\* _build_firestore_query: it reads `.value` of sort_field and sort_order, of the
\* field of every filter, of the field of every date filter that has a bound, and
\* of every status; on a plain str that raises AttributeError
build_firestore_query(query) ==
    LET fails ==
            \/ ~HasValueAttr(query.sort_field)
            \/ ~HasValueAttr(query.sort_order)
            \/ \E i \in DOMAIN query.filters : ~HasValueAttr(query.filters[i].field)
            \/ \E i \in DOMAIN query.date_filters :
                  /\ truthy(query.date_filters[i].start_date)
                        \/ truthy(query.date_filters[i].end_date)
                  /\ ~HasValueAttr(query.date_filters[i].field)
            \/ \E i \in DOMAIN query.application_statuses :
                  ~HasValueAttr(query.application_statuses[i])
    IN IF fails THEN [raised |-> TRUE, filters |-> <<>>]
       ELSE [raised |-> FALSE,
             filters |->
                [i \in DOMAIN query.filters |->
                    FilterConfig(query.filters[i].field.value,
                                 query.filters[i].operator, query.filters[i].value)]
                \o date_filter_configs(query.date_filters)
                \o (IF query.application_statuses # <<>>
                      THEN <<FilterConfig("application_status", "in",
                                List([i \in DOMAIN query.application_statuses |->
                                         query.application_statuses[i].value]))>>
                      ELSE <<>>)
                \o (IF query.countries # <<>>
                      THEN <<FilterConfig("country", "in", List(query.countries))>>
                      ELSE <<>>)]

\* one branch of the if / elif chain of _execute_filtered_query: the record
\* passes the filter, fails it, or the comparison raises TypeError
apply_operator(student_value, operator, filter_value) ==
    CASE operator = "eq" ->
            IF py_eq(student_value, filter_value) THEN "pass" ELSE "fail"
      [] operator = "ne" ->
            IF py_eq(student_value, filter_value) THEN "fail" ELSE "pass"
      [] operator \in {"gt", "gte", "lt", "lte"} ->
            IF ~truthy(student_value) THEN "fail"
            ELSE IF ~Comparable(student_value, filter_value) THEN "TypeError"
            ELSE IF CASE operator = "gt" -> py_lt(filter_value, student_value)
                      [] operator = "gte" -> ~py_lt(student_value, filter_value)
                      [] operator = "lt" -> py_lt(student_value, filter_value)
                      [] OTHER -> ~py_lt(filter_value, student_value)
                   THEN "pass" ELSE "fail"
      [] operator = "contains" ->
            IF /\ truthy(student_value)
               /\ str_in(str_lower(str(filter_value)), str_lower(str(student_value)))
              THEN "pass" ELSE "fail"
      [] operator = "in" ->
            IF ~Containable(student_value, filter_value) THEN "TypeError"
            ELSE IF py_in(student_value, filter_value) THEN "pass" ELSE "fail"
      [] OTHER -> "pass"

\* the inner loop over the filters: it breaks at the first filter that fails
RECURSIVE filter_outcome(_, _)
filter_outcome(student, filters) ==
    IF filters = <<>> THEN "pass"
    ELSE LET f == Head(filters)
             r == apply_operator(getattr(student, f.field), f.operator, f.value)
         IN IF r = "pass" THEN filter_outcome(student, Tail(filters)) ELSE r

\* _execute_filtered_query over the snapshot all_students
execute_filtered_query(filters, all_students) ==
    IF \E i \in DOMAIN all_students :
          filter_outcome(all_students[i], filters) = "TypeError"
      THEN [raised |-> TRUE, students |-> <<>>]
      ELSE LET include_student(s) == filter_outcome(s, filters) = "pass"
           IN [raised |-> FALSE, students |-> SelectSeq(all_students, include_student)]

\* _apply_text_search
apply_text_search(student_list, query) ==
    IF ~truthy(query.text_query) THEN [raised |-> FALSE, students |-> student_list]
    ELSE IF /\ student_list # <<>>
            /\ query.search_fields # <<>>
            /\ ~HasValueAttr(query.search_fields[1])
      THEN [raised |-> TRUE, students |-> <<>>]
    ELSE LET search_terms == str_split(str_lower(query.text_query.s))
             student_matches(student) ==
                \E i \in DOMAIN query.search_fields :
                    LET field_value == getattr(student, query.search_fields[i].value)
                    IN /\ truthy(field_value)
                       /\ \A k \in DOMAIN search_terms :
                             str_in(search_terms[k], str_lower(str(field_value)))
         IN [raised |-> FALSE, students |-> SelectSeq(student_list, student_matches)]

\* get_sort_key of _apply_sorting
get_sort_key(student, sort_field) ==
    LET value == getattr(student, sort_field.value)
    IN IF value.t = "NoneType"
         THEN IF sort_field.value \in DateFields THEN Datetime(0) ELSE Str(<<>>)
         ELSE value

Reverse(s) == [i \in DOMAIN s |-> s[Len(s) + 1 - i]]

\* a stable ascending sort by get_sort_key: on equal keys the element of the
\* left part goes first
RECURSIVE merge(_, _, _)
merge(a, b, sort_field) ==
    IF a = <<>> THEN b
    ELSE IF b = <<>> THEN a
    ELSE IF py_lt(get_sort_key(Head(b), sort_field), get_sort_key(Head(a), sort_field))
      THEN <<Head(b)>> \o merge(a, Tail(b), sort_field)
      ELSE <<Head(a)>> \o merge(Tail(a), b, sort_field)

RECURSIVE stable_sort(_, _)
stable_sort(s, sort_field) ==
    IF Len(s) <= 1 THEN s
    ELSE LET h == Len(s) \div 2
         IN merge(stable_sort(SubSeq(s, 1, h), sort_field),
                  stable_sort(SubSeq(s, h + 1, Len(s)), sort_field), sort_field)

\* sorted(students, key=get_sort_key, reverse=reverse): with reverse the list is
\* reversed, sorted and reversed again, which keeps equal keys in input order
sorted(student_list, sort_field, reverse) ==
    IF reverse THEN Reverse(stable_sort(Reverse(student_list), sort_field))
    ELSE stable_sort(student_list, sort_field)

\* mutant of apply_sorting: descending order by reversing the ascending result
apply_sorting_ReversesAscending(student_list, query) ==
    IF student_list # <<>> /\ ~HasValueAttr(query.sort_field)
      THEN [raised |-> TRUE, students |-> <<>>]
      ELSE [raised |-> FALSE,
            students |-> IF query.sort_order.value = DESC
                           THEN Reverse(stable_sort(student_list, query.sort_field))
                           ELSE stable_sort(student_list, query.sort_field)]

\* _apply_sorting; get_sort_key reads query.sort_field.value for every element
apply_sorting(student_list, query) ==
    IF student_list # <<>> /\ ~HasValueAttr(query.sort_field)
      THEN [raised |-> TRUE, students |-> <<>>]
      ELSE [raised |-> FALSE,
            students |-> sorted(student_list, query.sort_field,
                                query.sort_order.value = DESC)]

\* mutant of paginate: the page starts one record late
paginate_SkipsOne(student_list, offset, limit) ==
    SubSeq(student_list, offset + 2, Min(offset + 1 + limit, Len(student_list)))

\* filtered_students[query.offset:query.offset + query.limit]
paginate(student_list, offset, limit) ==
    SubSeq(student_list, offset + 1, Min(offset + limit, Len(student_list)))

\* mutant of page_info: a next page is announced whenever the page is full
page_info_NextWhenFull(query, filtered_count) ==
    [limit |-> query.limit, offset |-> query.offset,
     current_page |-> (query.offset \div query.limit) + 1,
     total_pages |-> (filtered_count + query.limit - 1) \div query.limit,
     has_next |-> query.offset + query.limit <= filtered_count,
     has_previous |-> query.offset > 0]

\* the page_info dict of search_students
page_info(query, filtered_count) ==
    [limit |-> query.limit, offset |-> query.offset,
     current_page |-> (query.offset \div query.limit) + 1,
     total_pages |-> (filtered_count + query.limit - 1) \div query.limit,
     has_next |-> query.offset + query.limit < filtered_count,
     has_previous |-> query.offset > 0]

SearchRaised(code, query) ==
    [kind |-> "raised", code |-> code, students |-> <<>>, total_count |-> 0,
     filtered_count |-> 0, page_info |-> page_info(query, 0), query |-> query]

\* the try block of search_students up to the construction of SearchResult:
\* total_students is what the list_students call of search_students returned,
\* all_students what the one of _execute_filtered_query returned
search_over(query, total_students, all_students, storeUp) ==
    IF ~HasValueAttr(query.sort_field) THEN SearchRaised("SEARCH_ERROR", query)
    ELSE IF validate_search_query(query) THEN SearchRaised("VALIDATION", query)
    ELSE LET firestore_query == build_firestore_query(query)
         IN IF firestore_query.raised THEN SearchRaised("SEARCH_ERROR", query)
            ELSE IF ~storeUp THEN SearchRaised("INTERNAL", query)
            ELSE
            LET filtered == execute_filtered_query(firestore_query.filters, all_students)
            IN IF filtered.raised THEN SearchRaised("SEARCH_ERROR", query)
               ELSE
               LET matched == apply_text_search(filtered.students, query)
               IN IF matched.raised THEN SearchRaised("SEARCH_ERROR", query)
                  ELSE
                  LET ordered == apply_sorting(matched.students, query)
                  IN IF ordered.raised THEN SearchRaised("SEARCH_ERROR", query)
                     ELSE [kind |-> "result", code |-> "",
                           students |-> paginate(ordered.students, query.offset,
                                                 query.limit),
                           total_count |-> Len(total_students),
                           filtered_count |-> Len(matched.students),
                           page_info |-> page_info(query, Len(matched.students)),
                           query |-> query]

\* a search during which no other request writes: both reads see the same store
search(query, store, storeUp) ==
    search_over(query, list_students(store, snapshot_limit, 0),
                list_students(store, snapshot_limit, 0), storeUp)

\* SearchService.search_students: the search and its audit call
search_students(user, args, sinks, stores) ==
    /\ ops < MaxOps
    /\ \E a \in args, sinkUp \in sinks, storeUp \in stores :
        /\ result' = search(SearchQuery(a), students, storeUp)
        /\ Finish("search_students", user, sinkUp,
                  IF result'.kind = "result"
                    THEN OpReturned(Len(result'.students), 0, TRUE)
                    ELSE OpRaised(result'.code),
                  AuditCall(NoAuditCall(audit_logs),
                            log_student_action(audit_logs, user, "search_students",
                                               result'.kind = "result", sinkUp)))
    /\ UNCHANGED <<students, files, email_logs, authVars, unit, bulkVars, procVars>>

----------------------------------------------------------------------------
(* Search requests *)

MaxLimit == 2
MaxOffset == 2

JOHN == <<"J", "o", "h", "n">>
JOHN_IO == <<"j", "o", "h", "n", " ", ".", "i", "o">>

\* SearchQuery() with no argument given, but for the page
DefaultArgs(limit, offset) ==
    [text_query |-> None, search_fields |-> [given |-> FALSE, names |-> <<>>],
     filters |-> <<>>, date_filters |-> <<>>, application_statuses |-> <<>>,
     countries |-> <<>>, sort_field |-> Unset, sort_order |-> Unset,
     limit |-> limit, offset |-> offset]

\* requests with a text query: over the default search fields or over name alone
TextArgs ==
    {[DefaultArgs(l, o) EXCEPT !.text_query = t, !.search_fields = f] :
        t \in {None, Str(JOHN), Str(JOHN_IO)},
        f \in {[given |-> FALSE, names |-> <<>>], [given |-> TRUE, names |-> <<"name">>]},
        l \in 1 .. MaxLimit, o \in 0 .. MaxOffset}

\* requests with one structured filter or an explicit sort
StructuredArgs ==
    {[DefaultArgs(MaxLimit, 0) EXCEPT !.filters = <<SearchFilter("country", "eq", Str(USA))>>],
     [DefaultArgs(MaxLimit, 0) EXCEPT !.filters = <<SearchFilter("name", "like", Str(JOHN))>>],
     [DefaultArgs(MaxLimit, 0) EXCEPT
         !.date_filters = <<DateRangeFilter("created_at", Datetime(1), None)>>],
     [DefaultArgs(MaxLimit, 0) EXCEPT
         !.date_filters = <<DateRangeFilter("created_at", Datetime(2), Datetime(1))>>],
     [DefaultArgs(MaxLimit, 0) EXCEPT
         !.date_filters = <<DateRangeFilter("created_at", None, None)>>],
     [DefaultArgs(MaxLimit, 0) EXCEPT !.application_statuses = <<SUBMITTED>>],
     [DefaultArgs(MaxLimit, 0) EXCEPT !.countries = <<USA>>],
     [DefaultArgs(MaxLimit, 0) EXCEPT !.countries = <<USA>>, !.text_query = Str(JOHN)],
     [DefaultArgs(MaxLimit, 0) EXCEPT !.sort_field = "created_at"],
     [DefaultArgs(MaxLimit, 0) EXCEPT !.sort_order = ASC],
     [DefaultArgs(MaxLimit, 0) EXCEPT !.sort_order = DESC]}

SearchArgs == TextArgs \cup StructuredArgs

\* the searches made among the other service calls
ServiceSearches ==
    {DefaultArgs(MaxLimit, 0),
     [DefaultArgs(MaxLimit, 0) EXCEPT !.text_query = Str(JOHN)],
     [DefaultArgs(MaxLimit, 0) EXCEPT !.sort_order = ASC]}

----------------------------------------------------------------------------
(* Import files *)

LineJohnDoe == Line(JohnDoe.name.s, JohnDoe.email.s, USA, JohnDoe.grade.s, EXPLORING)

\* padded name, country and status in lower case, no grade
LineJonLee ==
    Line(JonLee.name.s \o <<" ">>, JonLee.email.s, <<"i", "n", "d">>, <<>>,
         <<"a", "p", "p", "l", "y", "i", "n", "g">>)

LineNoEmail == Line(JohnnyFive.name.s, <<>>, USA, JohnnyFive.grade.s, SUBMITTED)

LineBadStatus ==
    Line(JohnDoe.name.s, JohnDoe.email.s, USA, JohnDoe.grade.s,
         <<"B", "o", "g", "u", "s">>)

LineEmpty == Line(<<>>, <<>>, <<>>, <<>>, <<>>)

ImportLines == {LineJohnDoe, LineJonLee, LineNoEmail, LineBadStatus, LineEmpty, BlankLine}

LineLists(lines) == UNION {[1 .. n -> lines] : n \in 0 .. MaxRows}

ImportFile(format, parses, lines) == [format |-> format, parses |-> parses, lines |-> lines]

\* uploaded files: .csv and .json files that parse, a file of another
\* extension, and a .csv file whose content the parser rejects
ImportFiles ==
    {ImportFile("csv", TRUE, ls) : ls \in LineLists(ImportLines)}
        \cup {ImportFile("json", TRUE, ls) :
                 ls \in LineLists({LineJohnDoe, LineNoEmail, LineEmpty})}
        \cup {ImportFile("txt", TRUE, <<>>), ImportFile("csv", FALSE, <<>>)}

ImportRequest(file, validate_only, down) ==
    [file |-> file, validate_only |-> validate_only, down |-> down]

ImportRequests ==
    {ImportRequest(f, v, d) :
        f \in ImportFiles, v \in BOOLEAN, d \in {{}, {2}, {3}}}

\* a .csv file of n lines, the first of them complete and the others without email
LongFile(n) ==
    ImportFile("csv", TRUE, [i \in 1 .. n |-> IF i <= MaxRows THEN LineJohnDoe ELSE LineNoEmail])

LongRequests ==
    {ImportRequest(LongFile(n), v, {}) :
        n \in {max_import_rows, max_import_rows + 1}, v \in BOOLEAN}

\* the imports made among the other service calls
ServiceImports ==
    {ImportRequest(f, v, {}) :
        f \in {ImportFile("csv", TRUE, <<LineJohnDoe>>),
               ImportFile("csv", TRUE, <<LineJohnDoe, LineNoEmail>>),
               ImportFile("txt", TRUE, <<>>)},
        v \in BOOLEAN}

----------------------------------------------------------------------------
(* The services under calls by authenticated principals (SpecServices) *)

ServicesInit ==
    /\ AuthIdle
    /\ ServicesIdle
    /\ SearchIdle
    /\ BulkIdle
    /\ ProcessIdle

ServicesNext ==
    \/ \E user \in Principals : create_student(user)
    \/ \E user \in Principals : get_student_by_id(user)
    \/ \E user \in Principals : update_student(user)
    \/ \E user \in Principals : delete_student(user)
    \/ \E user \in Principals : search_students(user, ServiceSearches, BOOLEAN, BOOLEAN)
    \/ \E user \in Principals : import_students_from_file(user, ServiceImports, BOOLEAN)
    \/ \E user \in Principals : export_students(user)
    \/ \E user \in Principals : upload_file(user)
    \/ \E user \in Principals : delete_file(user)
    \/ \E user \in Principals : send_email(user)

SpecServices == ServicesInit /\ [][ServicesNext]_vars

\* the audit action that identifies a service call
ActionOf(name) ==
    CASE name = "get_student_by_id" -> "view_student"
      [] name = "import_students_from_file" -> "bulk_import_students"
      [] OTHER -> name

SentinelIds(ids) == {i \in DOMAIN ids : ids[i] = "audit_log_failed"}

\* C3: log_action never raises to its caller: every audit call of a service call
\* either appended an event or returned the id "audit_log_failed" (always the
\* latter while the audit store is down), and the service call ends the way its
\* own logic ends it
C3_LogActionAbsorbs ==
    op.name # "none" =>
        /\ ~op.log_raised
        /\ op.outcome = op.business
        /\ Cardinality(SentinelIds(op.audit_ids)) + op.appended = Len(op.audit_ids)
        /\ ~op.sinkUp => op.appended = 0

\* an upload that returned normally although its audit call failed
C3_Witness ==
    /\ op.name = "upload_file"
    /\ ~op.sinkUp
    /\ op.outcome.kind = "returned"
    /\ op.audit_ids = <<"audit_log_failed">>

\* C4: every guarded operation, whether it returns or raises, appends exactly one
\* audit event, whose action identifies the operation and whose success flag is
\* true iff the operation returned normally
C4_Claim ==
    op.name # "none" =>
        /\ op.appended = 1
        /\ audit_logs[Len(audit_logs)].action = ActionOf(op.name)
        /\ audit_logs[Len(audit_logs)].success = (op.outcome.kind = "returned")


\* C27: a create adds one record under an id no record has, with created_at =
\* updated_at = the time of the call; an update that returns replaces one
\* record by a record with the same id and created_at whose updated_at is the
\* time of the update, not earlier than before and not earlier than created_at;
\* and no call other than a delete takes a record away or changes its id
C27_IdAndUpdatedAt ==
    [][/\ (op'.name = "create_student" /\ op' # op /\ op'.outcome.kind = "returned") =>
            \E t \in students' :
               /\ ~DocExists(students, t.id)
               /\ students' = students \cup {t}
               /\ t.created_at = Datetime(utcnow)
               /\ t.updated_at = Datetime(utcnow)
       /\ (op'.name = "update_student" /\ op' # op /\ op'.outcome.kind = "returned") =>
            \E s \in students, t \in students' :
               /\ students' = (students \ {s}) \cup {t}
               /\ t.id = s.id
               /\ t.created_at = s.created_at
               /\ t.updated_at = Datetime(utcnow)
               /\ t.updated_at.n >= s.updated_at.n
               /\ t.updated_at.n >= t.created_at.n
       /\ op'.name # "delete_student" =>
            \A s \in students : \E t \in students' :
               /\ t.id = s.id
               /\ t.created_at = s.created_at
               /\ t.updated_at.n >= s.updated_at.n]_vars

\* a record was created and then updated
C27_Witness ==
    /\ op.name = "update_student"
    /\ op.outcome.kind = "returned"
    /\ \E s \in students : s.updated_at.n > s.created_at.n

----------------------------------------------------------------------------
(* One search, or one stage of the search engine, over a store (SpecSearch) *)

MaxDocs == 3

\* the timestamps of the stored documents: an earlier and a later one
Times == {1, 2}

\* the stores: k documents with ids 1 .. k.  Document ids are opaque and the
\* engine sees them only through the order of list_students, so it is enough to
\* number the documents by (created_at, id)
StoreOf(ps, ts) == {Student(i, ps[i], ts[i]) : i \in DOMAIN ps}

NonDecreasing(k) ==
    {ts \in [1 .. k -> Times] : \A i \in 1 .. (k - 1) : ts[i] <= ts[i + 1]}

SearchStores ==
    UNION {{StoreOf(ps, ts) : ps \in [1 .. k -> Profiles], ts \in NonDecreasing(k)} :
              k \in 0 .. MaxDocs}

SearchInit ==
    /\ AuthIdle
    /\ students \in SearchStores
    /\ files = [f \in FileIds |-> "absent"]
    /\ email_logs = <<>>
    /\ audit_logs = <<>>
    /\ op = NoOp
    /\ ops = 0
    /\ SearchIdle
    /\ BulkIdle
    /\ ProcessIdle

\* filter configurations handed to _execute_filtered_query
FilterConfigs ==
    {FilterConfig("country", "eq", Str(USA)),
     FilterConfig("name", "contains", Str(JOHN)),
     FilterConfig("grade", "gt", PyInt(5)),
     FilterConfig("application_status", "in", List(<<SUBMITTED, APPLYING>>)),
     FilterConfig("created_at", "gte", Datetime(2))}

FilterLists ==
    {<<>>} \cup {<<f>> : f \in FilterConfigs}
           \cup {<<p[1], p[2]>> : p \in {q \in FilterConfigs \X FilterConfigs : q[1] # q[2]}}

Snapshot == list_students(students, snapshot_limit, 0)

\* the first call is a search
SearchOnce ==
    /\ op = NoOp
    /\ unit = NoUnit
    /\ search_students(AuthenticatedUser("u2", STAFF), SearchArgs, {TRUE}, {TRUE})

\* the first call is _execute_filtered_query with a filter list
Call_execute_filtered_query ==
    /\ op = NoOp
    /\ unit = NoUnit
    /\ \E filters \in FilterLists :
        LET r == execute_filtered_query(filters, Snapshot)
        IN unit' = [stage |-> "execute_filtered_query", filters |-> filters,
                    input |-> Snapshot, query |-> SearchQuery(DefaultArgs(1, 0)),
                    raised |-> r.raised, students |-> r.students]
    /\ UNCHANGED <<authVars, serviceVars, result, bulkVars, procVars>>

\* the first call is _apply_sorting with a list of the stored records
Call_apply_sorting ==
    /\ op = NoOp
    /\ unit = NoUnit
    /\ \E input \in {Snapshot, Reverse(Snapshot)},
          sort_field \in {Unset, "name"}, sort_order \in {Unset, ASC, DESC},
          assigned \in {Unset, "grade"} :
        LET validated == SearchQuery([DefaultArgs(1, 0) EXCEPT
                                         !.sort_field = sort_field,
                                         !.sort_order = sort_order])
            \* query.sort_field = SearchField.GRADE, assigned after construction:
            \* the member the annotation of sort_field declares
            query == IF assigned = Unset THEN validated
                     ELSE [validated EXCEPT !.sort_field = EnumMember(assigned)]
            r == apply_sorting(input, query)
        IN unit' = [stage |-> "apply_sorting", filters |-> <<>>, input |-> input,
                    query |-> query, raised |-> r.raised, students |-> r.students]
    /\ UNCHANGED <<authVars, serviceVars, result, bulkVars, procVars>>

SearchNext ==
    \/ SearchOnce
    \/ Call_execute_filtered_query
    \/ Call_apply_sorting

SpecSearch == SearchInit /\ [][SearchNext]_vars

C7_Claim ==
    LET query == result.query
        fields == {query.search_fields[i].value : i \in DOMAIN query.search_fields}
        terms == {str_split(str_lower(query.text_query.s))[k] :
                     k \in DOMAIN str_split(str_lower(query.text_query.s))}
        matches(student) ==
            \E field \in fields :
                \A term \in terms :
                    str_in(term, str_lower(str(getattr(student, field))))
        text_only ==
            /\ truthy(query.text_query)
            /\ query.filters = <<>>
            /\ query.date_filters = <<>>
            /\ query.application_statuses = <<>>
            /\ query.countries = <<>>
            /\ HasValueAttr(query.sort_field)
            /\ HasValueAttr(query.sort_order)
    IN (result.kind # "none" /\ text_only) =>
          /\ result.kind = "result"
          /\ result.filtered_count = Cardinality({s \in students : matches(s)})
          /\ \A i \in DOMAIN result.students : matches(result.students[i])

\* C8: structured filters are applied conjunctively, and over a fixed snapshot
\* the outcome (the filtered count, or the error raised) is the same for every
\* order of the same filters
C8_Claim ==
    LET passes_every(student, filters) ==
            \A i \in DOMAIN filters :
                apply_operator(getattr(student, filters[i].field),
                               filters[i].operator, filters[i].value) = "pass"
        structured(query) ==
            \/ query.filters # <<>>
            \/ \E i \in DOMAIN query.date_filters :
                  \/ truthy(query.date_filters[i].start_date)
                  \/ truthy(query.date_filters[i].end_date)
            \/ query.application_statuses # <<>>
            \/ query.countries # <<>>
    IN /\ unit.stage = "execute_filtered_query" =>
             LET permuted == execute_filtered_query(Reverse(unit.filters), unit.input)
                 passes(s) == passes_every(s, unit.filters)
             IN /\ permuted.raised = unit.raised
                /\ Len(permuted.students) = Len(unit.students)
                /\ ~unit.raised => unit.students = SelectSeq(unit.input, passes)
       /\ (/\ result.kind # "none"
           /\ structured(result.query)
           /\ ~validate_search_query(result.query)) =>
             /\ result.kind = "result"
             /\ LET filters == build_firestore_query(result.query).filters
                IN result.filtered_count =
                      Cardinality({s \in students : passes_every(s, filters)})

\* C9: _apply_sorting is stable ascending and descending: the output holds the
\* records of the input in key order, and two records with equal sort keys keep
\* the relative order they had in the input
C9_SortingIsStable ==
    (unit.stage = "apply_sorting" /\ ~unit.raised) =>
        LET given == unit.input
            output == unit.students
            key(s) == get_sort_key(s, unit.query.sort_field)
            descending == unit.query.sort_order.value = DESC
            index(s) == CHOOSE i \in DOMAIN given : given[i] = s
        IN /\ Len(output) = Len(given)
           /\ {output[i] : i \in DOMAIN output} = {given[i] : i \in DOMAIN given}
           /\ \A i, j \in DOMAIN output :
                 i < j =>
                    /\ IF descending THEN ~py_lt(key(output[i]), key(output[j]))
                                     ELSE ~py_lt(key(output[j]), key(output[i]))
                    /\ key(output[i]) = key(output[j]) =>
                          index(output[i]) < index(output[j])

\* a descending sort that moved records and kept two of equal key in input order
C9_Witness ==
    /\ unit.stage = "apply_sorting"
    /\ ~unit.raised
    /\ unit.query.sort_order.value = DESC
    /\ unit.students # unit.input
    /\ \E i, j \in DOMAIN unit.input :
          /\ i < j
          /\ unit.input[i].created_at = unit.input[j].created_at
          /\ \E m, n \in DOMAIN unit.students :
                /\ m < n
                /\ unit.students[m] = unit.input[i]
                /\ unit.students[n] = unit.input[j]


C23_Claim ==
    (op.name = "search_students" /\ result.kind = "raised") =>
        /\ op.appended = 1
        /\ audit_logs[Len(audit_logs)].action = ActionOf("search_students")
        /\ ~audit_logs[Len(audit_logs)].success
        /\ op.outcome.kind = "raised"
        /\ (op.outcome.code = "VALIDATION") = validate_search_query(result.query)


\* C24: the page_info of a search that returns agrees with the result:
\* has_next iff some record of the filtered, sorted list lies after the page,
\* has_previous iff offset > 0, total_pages is filtered_count / limit rounded
\* up, and a page that is not empty has current_page <= total_pages
C24_PageInfoIsConsistent ==
    result.kind = "result" =>
        LET query == result.query
            filtered == execute_filtered_query(build_firestore_query(query).filters,
                                               Snapshot).students
            full == apply_sorting(apply_text_search(filtered, query).students,
                                  query).students
            page == result.students
            info == result.page_info
        IN /\ result.filtered_count = Len(full)
           /\ info.has_next = (\E k \in DOMAIN full : k > query.offset + Len(page))
           /\ info.has_previous = (query.offset > 0)
           /\ info.total_pages * query.limit >= result.filtered_count
           /\ (info.total_pages - 1) * query.limit < result.filtered_count
           /\ info.total_pages >= 0
           /\ page # <<>> => info.current_page <= info.total_pages

\* a page in the middle: one record before it and one after it
C24_Witness ==
    /\ result.kind = "result"
    /\ result.filtered_count = 3
    /\ result.query.limit = 1
    /\ result.query.offset = 1
    /\ Len(result.students) = 1
    /\ result.page_info.has_next
    /\ result.page_info.has_previous

-----------------------------------------------------------------------------
(* Search over a store of many records *)

MaxRecords == 101

\* the record of the n-th create_student call
NthStudent(n) ==
    Student(n, IF n % 2 = 1 THEN JohnDoe ELSE JonLee, n)

RecordStore(n) == {NthStudent(k) : k \in 1 .. n}

ManyInit ==
    /\ AuthIdle
    /\ students \in {RecordStore(n) : n \in 0 .. MaxRecords}
    /\ files = [f \in FileIds |-> "absent"]
    /\ email_logs = <<>>
    /\ audit_logs = <<>>
    /\ op = NoOp
    /\ ops = 0
    /\ SearchIdle
    /\ BulkIdle
    /\ ProcessIdle

\* a first page, a later page, and a country filter
ManyArgs ==
    {DefaultArgs(1, 0),
     DefaultArgs(MaxLimit, MaxOffset),
     [DefaultArgs(MaxLimit, 0) EXCEPT !.countries = <<USA>>]}

SearchMany ==
    /\ op = NoOp
    /\ search_students(AuthenticatedUser("u2", STAFF), ManyArgs, {TRUE}, {TRUE})

SpecMany == ManyInit /\ [][SearchMany]_vars

\* C10: over a store of N records, N at most 10,000, search_students evaluates
\* the filters over all N records and reports total_count = N whatever the
\* filters, limit and offset of the query
C10_Claim ==
    result.kind # "none" =>
        LET filters == build_firestore_query(result.query).filters
            passes_every(student) ==
                \A i \in DOMAIN filters :
                    apply_operator(getattr(student, filters[i].field),
                                   filters[i].operator, filters[i].value) = "pass"
        IN /\ result.kind = "result"
           /\ result.total_count = Cardinality(students)
           /\ result.filtered_count = Cardinality({s \in students : passes_every(s)})

-----------------------------------------------------------------------------
(* An import, then an export (SpecImport) *)

ImportInit ==
    /\ AuthIdle
    /\ students = {Student(1, JonLee, 1)}
    /\ files = [f \in FileIds |-> "absent"]
    /\ email_logs = <<>>
    /\ audit_logs = <<>>
    /\ op = NoOp
    /\ ops = 0
    /\ SearchIdle
    /\ BulkIdle
    /\ ProcessIdle

\* the first call is an import by an admin
ImportOnce ==
    /\ op = NoOp
    /\ import_students_from_file(AuthenticatedUser("u1", ADMIN),
                                 ImportRequests \cup LongRequests, {TRUE})

\* the export that follows an import
ExportAfterImport ==
    /\ op.name = "import_students_from_file"
    /\ export_students(AuthenticatedUser("u1", ADMIN))

ImportNext ==
    \/ ImportOnce
    \/ ExportAfterImport

SpecImport == ImportInit /\ [][ImportNext]_vars

\* C11: an import that gets past the file-level checks returns an ImportResult
\* with total_rows = successful_imports + failed_imports and one error entry
\* per failed row that carries the row's number (the data rows of a CSV file
\* are numbered from 2, the header being row 1), and, unless validate_only, as
\* many created ids as successful imports
C11_ImportResultAccounts ==
    bulk.kind = "import" =>
        LET lines == bulk.request.file.lines
            data_lines == {i \in DOMAIN lines : lines[i] # BlankLine}
            \* the number of a line: its position among the data lines, after the header
            number(i) == IF bulk.request.file.format = "csv"
                           THEN 1 + Cardinality({k \in data_lines : k <= i})
                           ELSE i
            failed_numbers ==
                {number(i) : i \in {k \in data_lines :
                    /\ lines[k] # LineEmpty \/ bulk.request.file.format = "json"
                    /\ \/ lines[k] \in {LineNoEmail, LineBadStatus, LineEmpty}
                       \/ ~bulk.request.validate_only /\ number(k) \in bulk.request.down}}
        IN /\ bulk.total_rows = bulk.successful_imports + bulk.failed_imports
           /\ Len(bulk.errors) = bulk.failed_imports
           /\ {bulk.errors[k].row_number : k \in DOMAIN bulk.errors} = failed_numbers
           /\ \A j, k \in DOMAIN bulk.errors :
                 j < k => bulk.errors[j].row_number < bulk.errors[k].row_number
           /\ ~bulk.request.validate_only =>
                 /\ Len(bulk.created_student_ids) = bulk.successful_imports
                 /\ \A j, k \in DOMAIN bulk.created_student_ids :
                       j # k => bulk.created_student_ids[j] # bulk.created_student_ids[k]
                 /\ \A k \in DOMAIN bulk.created_student_ids :
                       DocExists(students, bulk.created_student_ids[k])

\* the CSV file of three data rows whose first row lacks email, imported
C11_Witness ==
    /\ bulk.kind = "import"
    /\ bulk.request.file = ImportFile("csv", TRUE, <<LineNoEmail, LineJohnDoe, LineJonLee>>)
    /\ ~bulk.request.validate_only
    /\ bulk.total_rows = 3
    /\ bulk.successful_imports = 2
    /\ bulk.failed_imports = 1
    /\ bulk.errors[1].row_number = 2
    /\ Len(bulk.created_student_ids) = 2

\* C12: a row whose validation or creation raises is recorded as that row's
\* error and the loop goes on: every row of the file is counted, a row has its
\* entry among the errors exactly when it fails imported on its own, and a real
\* import creates one student for every row that succeeds on its own
C12_RowsAreIndependent ==
    bulk.kind = "import" =>
        LET request == bulk.request
            alone(row) == process_import_rows(<<row>>, {}, request.validate_only,
                                              request.down, utcnow)
            fails_alone(row) == alone(row).failed_imports = 1
        IN /\ bulk.successful_imports + bulk.failed_imports = Len(bulk.rows)
           /\ \A i \in DOMAIN bulk.rows :
                 IF fails_alone(bulk.rows[i])
                   THEN alone(bulk.rows[i]).errors[1]
                           \in {bulk.errors[k] : k \in DOMAIN bulk.errors}
                   ELSE \A k \in DOMAIN bulk.errors :
                           bulk.errors[k].row_number # bulk.rows[i]._row_number
           /\ bulk.successful_imports
                 = Cardinality({i \in DOMAIN bulk.rows : ~fails_alone(bulk.rows[i])})
           /\ ~request.validate_only =>
                 Len(bulk.created_student_ids) = bulk.successful_imports

\* the store fails at the first data row, the second lacks email, and the third
\* is created all the same
C12_Witness ==
    /\ bulk.kind = "import"
    /\ bulk.request.file = ImportFile("csv", TRUE, <<LineJohnDoe, LineNoEmail, LineJonLee>>)
    /\ ~bulk.request.validate_only
    /\ bulk.request.down = {2}
    /\ bulk.errors = <<ImportError(2, "AppError"), ImportError(3, "ValidationError")>>
    /\ bulk.successful_imports = 1
    /\ Len(bulk.created_student_ids) = 1
    /\ \E s \in students : s.id = bulk.created_student_ids[1] /\ s.name = JonLee.name

\* C13: an import with validate_only leaves the store as it was, returns no
\* created id, and its errors are the validation errors of the import of the
\* same file without validate_only
C13_ValidateOnlyWritesNothing ==
    [][(/\ op'.name = "import_students_from_file"
        /\ ops' = ops + 1
        /\ bulk'.kind = "import"
        /\ bulk'.request.validate_only)
       => LET request == bulk'.request
              validation(entry) == entry.error_type = "ValidationError"
              real == process_import_rows(bulk'.rows, students, FALSE, request.down,
                                          utcnow)
          IN /\ students' = students
             /\ bulk'.created_student_ids = <<>>
             /\ bulk'.errors = SelectSeq(real.errors, validation)
             /\ bulk'.failed_imports = Len(bulk'.errors)
             /\ bulk'.successful_imports = bulk'.total_rows - bulk'.failed_imports]_vars

\* a file of two valid rows and one without email has been validated: one row
\* is flagged, nothing is created and the store holds what it held
C13_Witness ==
    /\ bulk.kind = "import"
    /\ bulk.request.validate_only
    /\ bulk.request.file = ImportFile("csv", TRUE, <<LineJohnDoe, LineNoEmail, LineJonLee>>)
    /\ bulk.request.down = {2}
    /\ bulk.successful_imports = 2
    /\ bulk.errors = <<ImportError(3, "ValidationError")>>
    /\ bulk.created_student_ids = <<>>
    /\ students = {Student(1, JonLee, 1)}

\* C14: an import of a file that parses to more than max_import_rows rows
\* raises a validation error and the store is left as it was, whatever the rows
\* hold
C14_LongFileIsRejected ==
    [][(/\ op'.name = "import_students_from_file"
        /\ ops' = ops + 1
        /\ bulk'.request.file.parses
        /\ \/ /\ bulk'.request.file.format = "csv"
              /\ Len(parse_csv_content(bulk'.request.file.lines)) > max_import_rows
           \/ /\ bulk'.request.file.format = "json"
              /\ Len(parse_json_content(bulk'.request.file.lines)) > max_import_rows)
       => /\ bulk'.kind = "raised"
          /\ bulk'.code = "VALIDATION"
          /\ op'.business = OpRaised("VALIDATION")
          /\ students' = students]_vars

\* a real import of a file of max_import_rows + 1 rows, some of them valid, has
\* been rejected
C14_Witness ==
    /\ op.name = "import_students_from_file"
    /\ bulk.kind = "raised"
    /\ bulk.code = "VALIDATION"
    /\ bulk.request = ImportRequest(LongFile(max_import_rows + 1), FALSE, {})
    /\ students = {Student(1, JonLee, 1)}

\* C15: after an import that created students from valid rows, an export
\* without filters returns normally (and holds a record for each of them)
C15_Claim ==
    [][(/\ op.name = "import_students_from_file"
        /\ bulk.kind = "import"
        /\ ~bulk.request.validate_only
        /\ bulk.successful_imports > 0
        /\ op'.name = "export_students"
        /\ ops' = ops + 1)
       => /\ bulk'.kind = "returned"
          /\ op'.business.kind = "returned"]_vars

----------------------------------------------------------------------------
(* The routes declared with Depends(require_admin) (SpecRoutes) *)

\* the dependency raised: FastAPI does not call the route function, and the
\* request ends with the exception of the dependency
DependencyRaised(name, user, e) ==
    /\ ops < MaxOps
    /\ Finish(name, user, TRUE,
              OpRaised(IF e.kind = "ForbiddenError" THEN "FORBIDDEN" ELSE e.kind),
              NoAuditCall(audit_logs))
    /\ UNCHANGED <<students, files, email_logs, authVars, searchVars, bulkVars, procVars>>

\* PUT /students/{student_id}: current_user = Depends(require_admin)
update_student_route(user) ==
    IF role_checker(user, require_admin) = Authorized
      THEN update_student(user)
      ELSE DependencyRaised("update_student", user, role_checker(user, require_admin))

\* DELETE /students/{student_id}: current_user = Depends(require_admin)
delete_student_route(user) ==
    IF role_checker(user, require_admin) = Authorized
      THEN delete_student(user)
      ELSE DependencyRaised("delete_student", user, role_checker(user, require_admin))

\* POST /bulk/import: current_user = Depends(require_admin)
bulk_import_students_route(user) ==
    IF role_checker(user, require_admin) = Authorized
      THEN import_students_from_file(user, ServiceImports, BOOLEAN)
      ELSE DependencyRaised("import_students_from_file", user,
                            role_checker(user, require_admin))

RoutesInit ==
    /\ AuthIdle
    /\ students \in SearchStores
    /\ files = [f \in FileIds |-> "absent"]
    /\ email_logs = <<>>
    /\ audit_logs = <<>>
    /\ op = NoOp
    /\ ops = 0
    /\ SearchIdle
    /\ BulkIdle
    /\ ProcessIdle

RoutesNext ==
    \/ \E user \in Principals : update_student_route(user)
    \/ \E user \in Principals : delete_student_route(user)
    \/ \E user \in Principals : bulk_import_students_route(user)

SpecRoutes == RoutesInit /\ [][RoutesNext]_vars

\* C18: a request for an update, a delete or a bulk import by a staff principal
\* ends in FORBIDDEN with the store unchanged, and the same request by an admin
\* reaches the business operation
C18_Claim ==
    [][\A user \in Principals :
          (op'.uid = user.uid /\ ops' = ops + 1) =>
              IF user.role.value = STAFF
                THEN /\ op'.outcome = OpRaised("FORBIDDEN")
                     /\ students' = students
                ELSE op'.outcome.code \notin {"FORBIDDEN", "AttributeError"}]_vars

----------------------------------------------------------------------------
(* SearchService.get_search_facets (SpecFacets) *)

\* base_query = None
NoBase == [given |-> FALSE]

\* the students get_search_facets counts: the page search_students returns for
\* the base query, or student_repository.list_students(limit=10000, offset=0)
facet_students(base, found, store, storeUp) ==
    IF base = NoBase
      THEN IF storeUp
             THEN [raised |-> FALSE, students |-> list_students(store, 10000, 0)]
             ELSE [raised |-> TRUE, students |-> <<>>]
      ELSE [raised |-> found.kind # "result", students |-> found.students]

\* facets[name][value] = facets[name].get(value, 0) + 1 over the values in order,
\* then dict(sorted(items, key=count, reverse=True)): the distinct values in
\* the order of their first appearance, sorted by count, largest first, values
\* of equal count keeping their order
facet(values) ==
    LET counted == [i \in DOMAIN values |->
                       [value |-> values[i],
                        count |-> Cardinality({j \in DOMAIN values : values[j] = values[i]}),
                        first |-> \A j \in 1 .. (i - 1) : values[j] # values[i]]]
        is_first(entry) == entry.first
        items == SelectSeq(counted, is_first)
        place(k) == 1 + Cardinality({j \in DOMAIN items :
                                        \/ items[j].count > items[k].count
                                        \/ items[j].count = items[k].count /\ j < k})
    IN [p \in DOMAIN items |->
           LET k == CHOOSE k \in DOMAIN items : place(k) = p
           IN [value |-> items[k].value, count |-> items[k].count]]

\* the dictionary returned by the except clause of get_search_facets
FacetsFailed(base) ==
    [kind |-> "facets", base |-> base, application_status |-> <<>>, country |-> <<>>,
     grade |-> <<>>, total_count |-> 0, error |-> TRUE]

\* the try block of get_search_facets.  Student declares use_enum_values = True,
\* so the application_status of a record read from the store is a str, and
\* student.application_status.value raises AttributeError for the first record
\* whose status is not empty
search_facets(base, counted) ==
    LET has_status(s) == truthy(s.application_status)
        has_country(s) == truthy(s.country)
        has_grade(s) == truthy(s.grade)
        with_status == SelectSeq(counted.students, has_status)
        with_country == SelectSeq(counted.students, has_country)
        with_grade == SelectSeq(counted.students, has_grade)
    IN IF counted.raised THEN FacetsFailed(base)
       ELSE IF \E i \in DOMAIN with_status : with_status[i].application_status.t = "str"
         THEN FacetsFailed(base)
       ELSE [kind |-> "facets", base |-> base,
             application_status |->
                facet([i \in DOMAIN with_status |-> with_status[i].application_status]),
             country |-> facet([i \in DOMAIN with_country |-> with_country[i].country]),
             grade |-> facet([i \in DOMAIN with_grade |-> with_grade[i].grade]),
             total_count |-> Len(counted.students), error |-> FALSE]

\* SearchService.get_search_facets: it returns in every case; a base query is
\* run through search_students, which makes its audit call
get_search_facets(user, bases, sinks, stores) ==
    /\ ops < MaxOps
    /\ \E base \in bases, sinkUp \in sinks, storeUp \in stores :
        /\ result' = IF base = NoBase THEN result
                     ELSE search(SearchQuery(base), students, storeUp)
        /\ bulk' = search_facets(base, facet_students(base, result', students, storeUp))
        /\ Finish("get_search_facets", user, sinkUp,
                  OpReturned(bulk'.total_count, 0, ~bulk'.error),
                  IF base = NoBase THEN NoAuditCall(audit_logs)
                  ELSE AuditCall(NoAuditCall(audit_logs),
                                 log_student_action(audit_logs, user, "search_students",
                                                    result'.kind = "result", sinkUp)))
    /\ UNCHANGED <<students, files, email_logs, authVars, unit, procVars>>

\* the base queries: none, every record, the records that match "John"
FacetBases ==
    {NoBase, DefaultArgs(MaxDocs, 0),
     [DefaultArgs(MaxDocs, 0) EXCEPT !.text_query = Str(JOHN)]}

FacetsInit ==
    /\ AuthIdle
    /\ students \in SearchStores
    /\ files = [f \in FileIds |-> "absent"]
    /\ email_logs = <<>>
    /\ audit_logs = <<>>
    /\ op = NoOp
    /\ ops = 0
    /\ SearchIdle
    /\ BulkIdle
    /\ ProcessIdle

\* the first call is a facet request by a staff principal
FacetsOnce ==
    /\ op = NoOp
    /\ get_search_facets(AuthenticatedUser("u2", STAFF), FacetBases, {TRUE}, BOOLEAN)

FacetsNext == FacetsOnce

SpecFacets == FacetsInit /\ [][FacetsNext]_vars

\* C19: the facets of application_status, country and grade hold, for every
\* distinct value of the field over the records counted (the full snapshot, or
\* the matches of the base query), the number of records with that value, in
\* order of non-increasing count
C19_Claim ==
    (/\ bulk.kind = "facets"
     /\ bulk.base # NoBase => result.kind = "result")
    => LET records == IF bulk.base = NoBase THEN students
                      ELSE {result.students[i] : i \in DOMAIN result.students}
           counts(entries, field) ==
               /\ \A i, j \in DOMAIN entries :
                     /\ i # j => entries[i].value # entries[j].value
                     /\ i < j => entries[i].count >= entries[j].count
               /\ \A s \in records :
                     truthy(getattr(s, field)) =>
                        \E i \in DOMAIN entries : entries[i].value = getattr(s, field)
               /\ \A i \in DOMAIN entries :
                     /\ entries[i].count > 0
                     /\ entries[i].count
                           = Cardinality({s \in records :
                                             getattr(s, field) = entries[i].value})
       IN /\ counts(bulk.application_status, "application_status")
          /\ counts(bulk.country, "country")
          /\ counts(bulk.grade, "grade")

----------------------------------------------------------------------------
(* NotificationService.send_bulk_notifications (SpecNotifications) *)

MaxBulkStudents == 21

\* batch_size = 10
batch_size == 10

WELCOME == "welcome"

\* the template argument: an EmailTemplate member, or the plain str which
\* SendBulkEmailRequest (use_enum_values = True) holds and the route passes on
Templates == {EnumMember(WELCOME), UseEnumValues(EnumMember(WELCOME))}

\* the students of a request, by their ids
StudentLists == {[i \in 1 .. n |-> i] : n \in 0 .. MaxBulkStudents}

\* all_email_logs.extend(batch_logs), batch after batch
RECURSIVE extend_all(_)
extend_all(lists) ==
    IF lists = <<>> THEN <<>> ELSE Head(lists) \o extend_all(Tail(lists))

\* the loop `for i in range(0, len(students), batch_size)`: the calls of
\* send_email in the order they are made, each with its recipients, whether it
\* raised, and the logs it returned.  send_email returns one log per recipient,
\* "failed" for a recipient the provider refuses; it raises as a whole when the
\* batch number is in `raising`.
RECURSIVE send_batches(_, _, _, _)
send_batches(student_list, i, raising, failing) ==
    IF i >= Len(student_list) THEN <<>>
    ELSE LET batch_students == SubSeq(student_list, i + 1, Min(i + batch_size, Len(student_list)))
             raised == ((i \div batch_size) + 1) \in raising
         IN <<[recipients |-> batch_students, raised |-> raised,
               logs |-> IF raised THEN <<>>
                        ELSE [k \in DOMAIN batch_students |->
                                 [student_id |-> batch_students[k],
                                  status |-> IF batch_students[k] \in failing
                                               THEN "failed" ELSE "sent"]]]>>
            \o send_batches(student_list, i + batch_size, raising, failing)

\* what send_bulk_notifications hands back, or that it raised
BulkNotifications(student_list, template, raised, batches) ==
    [kind |-> "notifications", students |-> student_list, template |-> template,
     raised |-> raised, batches |-> batches,
     email_logs |-> extend_all([b \in DOMAIN batches |-> batches[b].logs])]

\* NotificationService.send_bulk_notifications: the first statement formats
\* template.value into a log message, outside any try
send_bulk_notifications(user, lists, templates) ==
    /\ ops < MaxOps
    /\ \E list \in lists, template \in templates :
        IF ~HasValueAttr(template)
          THEN /\ bulk' = BulkNotifications(list, template, TRUE, <<>>)
               /\ email_logs' = email_logs
               /\ Finish("send_bulk_notifications", user, TRUE,
                         OpRaised("AttributeError"), NoAuditCall(audit_logs))
          ELSE \E raising \in SUBSET (1 .. ((Len(list) + batch_size - 1) \div batch_size)),
                  failing \in {{}} \cup {{list[k]} : k \in DOMAIN list} :
                /\ bulk' = BulkNotifications(list, template, FALSE,
                                             send_batches(list, 0, raising, failing))
                /\ email_logs' = email_logs \o
                      [k \in DOMAIN bulk'.email_logs |-> bulk'.email_logs[k].status]
                /\ Finish("send_bulk_notifications", user, TRUE,
                          OpReturned(Cardinality({k \in DOMAIN bulk'.email_logs :
                                                     bulk'.email_logs[k].status = "sent"}),
                                     Cardinality({k \in DOMAIN bulk'.email_logs :
                                                     bulk'.email_logs[k].status = "failed"}),
                                     TRUE),
                          send_each([k \in DOMAIN bulk'.email_logs |->
                                        bulk'.email_logs[k].status = "sent"],
                                    NoAuditCall(audit_logs), user, TRUE))
    /\ UNCHANGED <<students, files, authVars, searchVars, procVars>>

NotificationsInit ==
    /\ AuthIdle
    /\ ServicesIdle
    /\ SearchIdle
    /\ BulkIdle
    /\ ProcessIdle

\* the first call is a bulk dispatch by a staff principal
BulkDispatchOnce ==
    /\ op = NoOp
    /\ send_bulk_notifications(AuthenticatedUser("u2", STAFF), StudentLists, Templates)

NotificationsNext == BulkDispatchOnce

SpecNotifications == NotificationsInit /\ [][NotificationsNext]_vars

\* C20: a bulk dispatch returns; the batches it sent, taken in the order they
\* were sent, are consecutive pieces of the student list of at most batch_size
\* recipients that together make up the list; and the logs it returns are those
\* of the batches that did not raise, every later batch being attempted
C20_Claim ==
    bulk.kind = "notifications" =>
        /\ ~bulk.raised
        /\ \A b \in DOMAIN bulk.batches :
              Len(bulk.batches[b].recipients) \in 1 .. batch_size
        /\ extend_all([b \in DOMAIN bulk.batches |-> bulk.batches[b].recipients])
              = bulk.students
        /\ [k \in DOMAIN bulk.email_logs |-> bulk.email_logs[k].student_id]
              = extend_all([b \in DOMAIN bulk.batches |->
                               IF bulk.batches[b].raised THEN <<>>
                               ELSE bulk.batches[b].recipients])

----------------------------------------------------------------------------
(* The connection handle of core/db.py (SpecDb) *)

MaxDbCalls == 6

\* the callers of get_firestore_client: the constructors of the services and
\* the readiness probe, all on the one event loop, so a call runs to its end
DbCallers ==
    {"FirebaseAuthManager", "AuditLogger", "FileStorageService", "NotificationService",
     "check_firestore"}

DbCall(name, caller, kind, client, reused, since_reset) ==
    [seq |-> db.seq + 1, name |-> name, caller |-> caller, kind |-> kind,
     client |-> client, reused |-> reused, since_reset |-> since_reset]

get_firestore_client_AlwaysConstructs(caller) ==
    /\ db.seq < MaxDbCalls
    /\ firestore_client' = client_calls + 1
    /\ client_calls' = client_calls + 1
    /\ db' = DbCall("get_firestore_client", caller, "returned", firestore_client',
                    FALSE, db.since_reset + 1)
    /\ UNCHANGED <<authVars, serviceVars, searchVars, bulkVars, file_student, repo>>

\* get_firestore_client: `if _firestore_client is None` constructs the
\* credentials and the client inside a try; any exception leaves the global at
\* None and is raised as AppError(code="INTERNAL").  A constructed client is a
\* new object, named here by the ordinal of its construction.
get_firestore_client(caller) ==
    /\ db.seq < MaxDbCalls
    /\ IF firestore_client = NoClient
         THEN \E constructs \in BOOLEAN :
                IF constructs
                  THEN /\ firestore_client' = client_calls + 1
                       /\ client_calls' = client_calls + 1
                       /\ db' = DbCall("get_firestore_client", caller, "returned",
                                       firestore_client', FALSE, db.since_reset + 1)
                  ELSE /\ UNCHANGED <<firestore_client, client_calls>>
                       /\ db' = DbCall("get_firestore_client", caller, "INTERNAL",
                                       NoClient, FALSE, db.since_reset)
         ELSE /\ UNCHANGED <<firestore_client, client_calls>>
              /\ db' = DbCall("get_firestore_client", caller, "returned",
                              firestore_client, TRUE, db.since_reset)
    /\ UNCHANGED <<authVars, serviceVars, searchVars, bulkVars, file_student, repo>>

\* reset_firestore_client: _firestore_client = None
reset_firestore_client ==
    /\ db.seq < MaxDbCalls
    /\ firestore_client' = NoClient
    /\ client_calls' = client_calls
    /\ db' = DbCall("reset_firestore_client", "test", "returned", NoClient, FALSE, 0)
    /\ UNCHANGED <<authVars, serviceVars, searchVars, bulkVars, file_student, repo>>

DbInit ==
    /\ AuthIdle
    /\ ServicesIdle
    /\ SearchIdle
    /\ BulkIdle
    /\ ProcessIdle

DbNext ==
    \/ \E caller \in DbCallers : get_firestore_client(caller)
    \/ reset_firestore_client

SpecDb == DbInit /\ [][DbNext]_vars

\* C21: between two resets at most one handle is constructed; a call of
\* get_firestore_client made while a handle exists returns that handle and
\* constructs nothing; a call made while there is none (at the start, after a
\* reset, or after a construction that failed) either constructs exactly one
\* handle, different from every earlier one, keeps it and returns it, or
\* raises INTERNAL and leaves no handle; reset_firestore_client constructs
\* nothing and leaves no handle
C21_HandleIsConstructedOnce ==
    [][/\ db.since_reset <= 1
       /\ db'.since_reset <= 1
       /\ db'.name = "get_firestore_client" =>
            IF firestore_client # NoClient
              THEN /\ db'.kind = "returned"
                   /\ db'.client = firestore_client
                   /\ firestore_client' = firestore_client
                   /\ client_calls' = client_calls
              ELSE \/ /\ db'.kind = "returned"
                      /\ client_calls' = client_calls + 1
                      /\ firestore_client' # NoClient
                      /\ firestore_client' \notin 1 .. client_calls
                      /\ db'.client = firestore_client'
                   \/ /\ db'.kind = "INTERNAL"
                      /\ client_calls' = client_calls
                      /\ firestore_client' = NoClient
       /\ db'.name = "reset_firestore_client" =>
            /\ firestore_client' = NoClient
            /\ client_calls' = client_calls]_vars

\* a handle was constructed, reset, a second one constructed, and a later call
\* was handed the second one
C21_Witness ==
    /\ db.name = "get_firestore_client"
    /\ db.reused
    /\ client_calls = 2
    /\ db.client = 2
    /\ firestore_client = 2

----------------------------------------------------------------------------
(* File metadata: upload, soft delete and listing (SpecFiles) *)

\* what get_student_files returned: the ids of the listed files
StudentFiles(student_id, listed) ==
    [kind |-> "files", student_id |-> student_id, files |-> listed]

\* FileStorageService.get_student_files: the query
\*   where("student_id", "==", student_id).where("status", "!=", "deleted")
\* ordered by uploaded_at; every failure of the query is caught and [] is
\* returned.  The call writes nothing and makes no audit call.
get_student_files(user) ==
    /\ \E student_id \in StudentIds, answered \in BOOLEAN :
        bulk' = StudentFiles(student_id,
                    IF answered
                      THEN {f \in FileIds : /\ files[f] # "absent"
                                            /\ file_student[f] = student_id
                                            /\ files[f] # "deleted"}
                      ELSE {})
    /\ UNCHANGED <<authVars, serviceVars, searchVars, procVars>>

\* the metadata documents of earlier requests: each file is absent, uploaded
\* for a student, or uploaded for a student and deleted since
FileStores ==
    {st \in [FileIds -> [status : {"absent", "uploaded", "deleted"},
                         student_id : StudentIds \cup {EmptyId}]] :
        \A f \in FileIds : (st[f].status = "absent") = (st[f].student_id = EmptyId)}

FilesInit ==
    /\ AuthIdle
    /\ students = {}
    /\ \E st \in FileStores :
          /\ files = [f \in FileIds |-> st[f].status]
          /\ file_student = [f \in FileIds |-> st[f].student_id]
    /\ email_logs = <<>>
    /\ audit_logs = <<>>
    /\ op = NoOp
    /\ ops = 0
    /\ SearchIdle
    /\ BulkIdle
    /\ firestore_client = NoClient
    /\ client_calls = 0
    /\ db = NoDbCall
    /\ repo = [w \in Workers |-> NoRepoCall]

FilesNext ==
    \/ \E user \in Principals : upload_file(user)
    \/ \E user \in Principals : delete_file(user)
    \/ \E user \in Principals : get_student_files(user)

SpecFiles == FilesInit /\ [][FilesNext]_vars

\* C25: a delete_file call that returns True leaves the metadata document of
\* one existing file in place with status deleted and touches no other
\* document; no step removes a metadata document or takes a document out of
\* status deleted; and a get_student_files listing holds only files of the
\* student asked for whose status is not deleted
C25_DeleteIsSoft ==
    [][/\ (op'.name = "delete_file" /\ op' # op /\ op'.business.flag) =>
            \E f \in FileIds :
               /\ files[f] # "absent"
               /\ files' = [files EXCEPT ![f] = "deleted"]
               /\ file_student' = file_student
       /\ \A f \in FileIds :
            /\ files[f] # "absent" => files'[f] # "absent"
            /\ files[f] = "deleted" => files'[f] = "deleted"
            /\ files[f] # "absent" => file_student'[f] = file_student[f]
       /\ (bulk'.kind = "files" /\ bulk' # bulk) =>
            \A f \in bulk'.files :
               /\ files'[f] \notin {"absent", "deleted"}
               /\ file_student'[f] = bulk'.student_id]_vars

\* a student has two files, a delete of one of them has succeeded, and the
\* listing for the student holds the other one only
C25_Witness ==
    /\ op.name = "delete_file"
    /\ op.business.flag
    /\ bulk.kind = "files"
    /\ \A f \in FileIds : file_student[f] = bulk.student_id
    /\ \E f \in FileIds :
          /\ files[f] = "deleted"
          /\ bulk.files = FileIds \ {f}

----------------------------------------------------------------------------
(* The severity the audit helpers give an event (SpecAudit) *)

\* the users handed to the helpers: the principals of authenticate_user, whose
\* role is a plain str, and a user object whose role is the UserRole member, for
\* which log_action can build the entry
AuditUsers == Principals \cup {[uid |-> "u1", role |-> EnumMember(ADMIN)]}

\* the last audit call: the helper, the action and the id it returned
AuditUnit(stage, action, r) ==
    [stage |-> stage, action |-> action, id |-> r.id]

\* one call of log_student_action with an action of the student operations
Call_log_student_action ==
    /\ Len(audit_logs) < MaxOps
    /\ \E user \in AuditUsers, success \in BOOLEAN, sinkUp \in BOOLEAN,
          action \in {"create_student", "view_student", "update_student",
                      "delete_student", "search_students", "bulk_import_students",
                      "export_students"} :
        LET r == log_student_action(audit_logs, user, action, success, sinkUp)
        IN /\ audit_logs' = r.logs
           /\ unit' = AuditUnit("log_student_action", action, r)
    /\ UNCHANGED <<students, files, email_logs, op, ops, authVars, result, bulkVars,
                   procVars>>

\* one call of log_file_action with an action of the file operations
Call_log_file_action ==
    /\ Len(audit_logs) < MaxOps
    /\ \E user \in AuditUsers, success \in BOOLEAN, sinkUp \in BOOLEAN,
          action \in {"upload_file", "delete_file"} :
        LET r == log_file_action(audit_logs, user, action, success, sinkUp)
        IN /\ audit_logs' = r.logs
           /\ unit' = AuditUnit("log_file_action", action, r)
    /\ UNCHANGED <<students, files, email_logs, op, ops, authVars, result, bulkVars,
                   procVars>>

AuditInit ==
    /\ AuthIdle
    /\ ServicesIdle
    /\ SearchIdle
    /\ BulkIdle
    /\ ProcessIdle

AuditNext ==
    \/ Call_log_student_action
    \/ Call_log_file_action

SpecAudit == AuditInit /\ [][AuditNext]_vars

----------------------------------------------------------------------------
(* A search while other requests write to the store (SpecConcurrentSearch) *)

\* search_students up to its own list_students call (search.py:169): the
\* query is logged, validated and built, and the snapshot for total_count is
\* read.  A query that fails before the read ends the call here.
search_students_reads_total(user, args) ==
    /\ unit = NoUnit
    /\ result = NoResult
    /\ ops < MaxOps
    /\ \E a \in args :
        LET query == SearchQuery(a)
            early == search_over(query, <<>>, <<>>, TRUE)
        IN IF early.kind = "raised"
             THEN /\ result' = early
                  /\ unit' = [stage |-> "search_done", uid |-> user.uid, query |-> query,
                              total_students |-> <<>>]
                  /\ Finish("search_students", user, TRUE, OpRaised(early.code),
                            AuditCall(NoAuditCall(audit_logs),
                                      log_student_action(audit_logs, user,
                                                         "search_students", FALSE, TRUE)))
             ELSE /\ unit' = [stage |-> "search_total", uid |-> user.uid, query |-> query,
                              total_students |-> list_students(students, snapshot_limit, 0)]
                  /\ UNCHANGED <<result, audit_logs, op, ops>>
    /\ UNCHANGED <<students, files, email_logs, authVars, bulkVars, procVars>>

\* the rest of search_students: _execute_filtered_query reads the store again
\* (search.py:535), then text search, sorting, the page and the audit call
search_students_reads_filtered(user) ==
    /\ unit.stage = "search_total"
    /\ unit.uid = user.uid
    /\ result' = search_over(unit.query, unit.total_students,
                             list_students(students, snapshot_limit, 0), TRUE)
    /\ unit' = [unit EXCEPT !.stage = "search_done"]
    /\ Finish("search_students", user, TRUE,
              IF result'.kind = "result"
                THEN OpReturned(Len(result'.students), 0, TRUE)
                ELSE OpRaised(result'.code),
              AuditCall(NoAuditCall(audit_logs),
                        log_student_action(audit_logs, user, "search_students",
                                           result'.kind = "result", TRUE)))
    /\ UNCHANGED <<students, files, email_logs, authVars, bulkVars, procVars>>

\* another request writes while the search is between its two reads
WhileSearching(write) ==
    /\ unit.stage = "search_total"
    /\ ops < MaxOps - 1
    /\ write

ConcurrentSearchInit ==
    /\ AuthIdle
    /\ students \in SearchStores
    /\ files = [f \in FileIds |-> "absent"]
    /\ email_logs = <<>>
    /\ audit_logs = <<>>
    /\ op = NoOp
    /\ ops = 0
    /\ SearchIdle
    /\ BulkIdle
    /\ ProcessIdle

ConcurrentSearchNext ==
    \/ search_students_reads_total(AuthenticatedUser("u2", STAFF), SearchArgs)
    \/ search_students_reads_filtered(AuthenticatedUser("u2", STAFF))
    \/ WhileSearching(create_student(AuthenticatedUser("u1", ADMIN)))
    \/ WhileSearching(delete_student(AuthenticatedUser("u1", ADMIN)))

SpecConcurrentSearch == ConcurrentSearchInit /\ [][ConcurrentSearchNext]_vars

\* C28: a search that returns has filtered_count <= total_count
C28_Claim ==
    result.kind = "result" => result.filtered_count <= result.total_count

----------------------------------------------------------------------------
(* StudentRepository.update_student and delete_student, store call by store  *)
(* call, for two requests at a time (SpecRepository).  The store answers     *)
(* every call: no outage is modelled here.                                   *)

RepoCall(pc_, name, id, update, out_) ==
    [pc |-> pc_, name |-> name, id |-> id, update |-> update, out |-> out_]

\* a request enters update_student(student_id, update_data) or
\* delete_student(student_id)
StartRepositoryCall(w) ==
    /\ repo[w].pc = "idle"
    /\ \E name \in {"update_student", "delete_student"}, id \in StudentIds,
          u \in StudentUpdates :
        repo' = [repo EXCEPT ![w] =
                    RepoCall("get", name, id,
                             IF name = "update_student" THEN u ELSE "none", "none")]
    /\ UNCHANGED <<authVars, serviceVars, searchVars, bulkVars, dbVars, file_student>>

\* doc = doc_ref.get(); `if not doc.exists: raise NotFoundError`
check_exists(w) ==
    /\ repo[w].pc = "get"
    /\ repo' = [repo EXCEPT ![w] =
                  IF ~DocExists(students, repo[w].id)
                    THEN [@ EXCEPT !.pc = "done", !.out = "NOT_FOUND"]
                  ELSE IF repo[w].name = "update_student"
                    THEN [@ EXCEPT !.pc = "update"]
                    ELSE [@ EXCEPT !.pc = "delete"]]
    /\ UNCHANGED <<authVars, serviceVars, searchVars, bulkVars, dbVars, file_student>>

\* update_student: doc_ref.update(update_dict).  update() of a document that
\* does not exist raises google.api_core.exceptions.NotFound, which is not the
\* application's NotFoundError and falls to `except Exception`: INTERNAL
update_student_update(w) ==
    /\ repo[w].pc = "update"
    /\ IF DocExists(students, repo[w].id)
         THEN /\ students' = (students \ {Doc(students, repo[w].id)})
                               \cup {ApplyUpdate(Doc(students, repo[w].id),
                                                 repo[w].update, utcnow)}
              /\ repo' = [repo EXCEPT ![w].pc = "get_updated"]
         ELSE /\ students' = students
              /\ repo' = [repo EXCEPT ![w] = [@ EXCEPT !.pc = "done", !.out = "INTERNAL"]]
    /\ UNCHANGED <<files, email_logs, audit_logs, op, ops, authVars, searchVars, bulkVars,
                   dbVars, file_student>>

\* update_student: updated_doc = doc_ref.get(); Student(**updated_doc.to_dict()).
\* to_dict() of a document that does not exist is None, and Student(**None)
\* raises TypeError: INTERNAL
update_student_get_updated(w) ==
    /\ repo[w].pc = "get_updated"
    /\ repo' = [repo EXCEPT ![w] =
                  IF DocExists(students, repo[w].id)
                    THEN [@ EXCEPT !.pc = "done", !.out = "returned"]
                    ELSE [@ EXCEPT !.pc = "done", !.out = "INTERNAL"]]
    /\ UNCHANGED <<authVars, serviceVars, searchVars, bulkVars, dbVars, file_student>>

\* delete_student: doc_ref.delete(), which succeeds whether or not the document
\* is there; return True
delete_student_delete(w) ==
    /\ repo[w].pc = "delete"
    /\ students' = {s \in students : s.id # repo[w].id}
    /\ repo' = [repo EXCEPT ![w] = [@ EXCEPT !.pc = "done", !.out = "returned"]]
    /\ UNCHANGED <<files, email_logs, audit_logs, op, ops, authVars, searchVars, bulkVars,
                   dbVars, file_student>>

RepositoryInit ==
    /\ AuthIdle
    /\ students \in {s \in SearchStores : Cardinality(s) <= MaxStudents}
    /\ files = [f \in FileIds |-> "absent"]
    /\ email_logs = <<>>
    /\ audit_logs = <<>>
    /\ op = NoOp
    /\ ops = 0
    /\ SearchIdle
    /\ BulkIdle
    /\ ProcessIdle

RepositoryNext ==
    \/ \E w \in Workers : StartRepositoryCall(w)
    \/ \E w \in Workers : check_exists(w)
    \/ \E w \in Workers : update_student_update(w)
    \/ \E w \in Workers : update_student_get_updated(w)
    \/ \E w \in Workers : delete_student_delete(w)

SpecRepository == RepositoryInit /\ [][RepositoryNext]_vars

\* C30: a repository call that has ended has returned or raised NotFoundError
C30_Claim ==
    \A w \in Workers : repo[w].pc = "done" => repo[w].out \in {"returned", "NOT_FOUND"}

====
